---- MODULE Spec2Model ----
(***************************************************************************)
(* The chat endpoint of PMA-Weather, src/app/api/chat/route.ts: the POST   *)
(* handler and the functions it awaits (parseLocationFromMessage,          *)
(* getWeatherData, getTimezoneFromCoordinates, analyzeWeatherQueryType).   *)
(* One action is the code that runs between two awaits of an external      *)
(* call: JavaScript runs a handler to its next await without interleaving. *)
(* An external call is issued by the action that reaches its await and is  *)
(* answered by the next action, which draws the answer from a small set.   *)
(*                                                                         *)
(* Strings the code inspects (trim, toLowerCase, includes) are sequences   *)
(* of one-character strings. An optional value (null/undefined or a value) *)
(* is a sequence of length 0 or 1. Temperatures and wind speed are in      *)
(* tenths of a unit, so that Math.round has something to round.            *)
(***************************************************************************)
EXTENDS Integers, Sequences, FiniteSets, TLC

\* Bounds of the model.
MaxTurns == 2        \* requests the endpoint handles one after the other
MaxSamples == 9      \* samples in a forecast feed (more than 7 days fit)
MaxToggles == 5      \* calls of toggleTheme
MaxReloads == 2      \* reloads of the page
MaxSubmits == 1             \* turns of one conversation
MaxSessionSubmits == 2      \* turns started in a whole session of the chat UI
MaxDeletions == 1    \* chats deleted in the chat UI
MaxCalls == 2        \* calls of addMessage on its own
MaxToolCalls == 1    \* tool calls the MCP server handles
MaxOps == 3          \* operations on the WeatherMCPClient singleton

\* --------------------------------------------------------------- values
None == <<>>
Some(x) == <<x>>
IsSome(o) == Len(o) = 1
Val(o) == o[1]

Whitespace == {" ", "\n", "\t"}
UpperChars == <<"A","B","C","D","E","F","G","H","I","J","K","L","M",
                "N","O","P","Q","R","S","T","U","V","W","X","Y","Z">>
LowerChars == <<"a","b","c","d","e","f","g","h","i","j","k","l","m",
                "n","o","p","q","r","s","t","u","v","w","x","y","z">>

\* String.prototype.toLowerCase, character by character.
ToLowerChar(c) ==
    IF \E i \in 1..Len(UpperChars) : UpperChars[i] = c
    THEN LowerChars[CHOOSE i \in 1..Len(UpperChars) : UpperChars[i] = c]
    ELSE c
ToLowerCase(s) == [i \in 1..Len(s) |-> ToLowerChar(s[i])]

\* String.prototype.trim: whitespace removed at both ends.
RECURSIVE TrimStart(_)
TrimStart(s) ==
    IF Len(s) > 0 /\ s[1] \in Whitespace THEN TrimStart(Tail(s)) ELSE s
RECURSIVE TrimEnd(_)
TrimEnd(s) ==
    IF Len(s) > 0 /\ s[Len(s)] \in Whitespace
    THEN TrimEnd(SubSeq(s, 1, Len(s) - 1)) ELSE s
Trim(s) == TrimEnd(TrimStart(s))

\* String.prototype.includes.
Includes(s, p) ==
    \E i \in 0..(Len(s) - Len(p)) : SubSeq(s, i + 1, i + Len(p)) = p

\* JavaScript truthiness of a string | null | undefined.
Truthy(o) == IsSome(o) /\ Len(Val(o)) > 0

\* Math.round of a value given in tenths: to the nearest integer, halves up.
MathRound(tenths) == (tenths + 5) \div 10

\* ------------------------------------------------ strings of the code
NullStr == <<"n","u","l","l">>
ForecastStr == <<"f","o","r","e","c","a","s","t">>
MixedStr == <<"m","i","x","e","d">>
CurrentStr == <<"c","u","r","r","e","n","t">>
LocalTime == <<"L","o","c","a","l"," ","T","i","m","e">>
ParisStr == <<"P","a","r","i","s">>
OzStr == <<"O","z">>
ClearSky == <<"c","l","e","a","r"," ","s","k","y">>
FewClouds == <<"f","e","w"," ","c","l","o","u","d","s">>
LightRain == <<"l","i","g","h","t"," ","r","a","i","n">>
Haze == <<"h","a","z","e">>

\* Texts of the messages of a request.
ThanksText ==
    <<"T","h","a","n","k","s">>
WeatherInTokyo ==
    <<"W","E","A","T","H","E","R"," ","i","n"," ","T","o","k","y","o","?">>
WhatAboutTomorrow ==
    <<"w","h","a","t"," ","a","b","o","u","t"," ","t","o","m","o","r","r",
      "o","w","?">>
CurrentWeatherInfo ==
    <<"C","u","r","r","e","n","t"," ","w","e","a","t","h","e","r"," ","i",
      "n","f","o",".",".",".">>
\* The weatherKeywords of the earlier variant of the route.
weatherKeywords ==
    {<<"w","e","a","t","h","e","r">>,
     <<"t","e","m","p","e","r","a","t","u","r","e">>,
     <<"t","e","m","p">>,
     <<"f","o","r","e","c","a","s","t">>,
     <<"r","a","i","n">>,
     <<"s","n","o","w">>,
     <<"s","u","n","n","y">>,
     <<"c","l","o","u","d","y">>,
     <<"h","o","t">>,
     <<"c","o","l","d">>,
     <<"w","a","r","m">>,
     <<"c","o","o","l">>,
     <<"h","u","m","i","d">>,
     <<"w","i","n","d">>,
     <<"s","t","o","r","m">>,
     <<"t","h","u","n","d","e","r">>,
     <<"l","i","g","h","t","n","i","n","g">>,
     <<"d","e","g","r","e","e","s">>,
     <<"c","e","l","s","i","u","s">>,
     <<"f","a","h","r","e","n","h","e","i","t">>,
     <<"p","r","e","c","i","p","i","t","a","t","i","o","n">>,
     <<"h","u","m","i","d","i","t","y">>,
     <<"p","r","e","s","s","u","r","e">>,
     <<"s","u","n","r","i","s","e">>,
     <<"s","u","n","s","e","t">>,
     <<"U","V">>,
     <<"v","i","s","i","b","i","l","i","t","y">>,
     <<"f","e","e","l","s"," ","l","i","k","e">>,
     <<"w","i","n","d"," ","s","p","e","e","d">>}

\* Messages of the errors the code throws or is given.
KeyNotConfigured ==
    <<"O","p","e","n","W","e","a","t","h","e","r"," ","A","P","I"," ","k",
      "e","y"," ","n","o","t"," ","c","o","n","f","i","g","u","r","e","d">>
CityNotFound ==
    <<"C","i","t","y"," ","n","o","t"," ","f","o","u","n","d">>
FailedWeather ==
    <<"F","a","i","l","e","d"," ","t","o"," ","f","e","t","c","h"," ","w",
      "e","a","t","h","e","r"," ","d","a","t","a">>
FailedForecast ==
    <<"F","a","i","l","e","d"," ","t","o"," ","f","e","t","c","h"," ","f",
      "o","r","e","c","a","s","t"," ","d","a","t","a">>
FetchFailed ==
    <<"f","e","t","c","h"," ","f","a","i","l","e","d">>
CannotDestructure ==
    <<"g","e","o","D","a","t","a","[","0","]"," ","i","s"," ","u","n","d",
      "e","f","i","n","e","d">>
ProviderCityNotFound ==
    <<"c","i","t","y"," ","n","o","t"," ","f","o","u","n","d">>
InvalidApiKey ==
    <<"I","n","v","a","l","i","d"," ","A","P","I"," ","k","e","y">>
LimitExceeded ==
    <<"l","i","m","i","t"," ","e","x","c","e","e","d","e","d">>
BadRequestBody ==
    <<"m","e","s","s","a","g","e","s"," ","i","s"," ","u","n","d","e","f",
      "i","n","e","d">>
GroqError ==
    <<"g","r","o","q",":"," ","5","0","3">>
NoMessage ==
    <<"c","h","o","i","c","e","s","[","0","]"," ","i","s"," ","u","n","d",
      "e","f","i","n","e","d">>

\* ------------------------------------------- answers of the outside world
\* A chat completion: the call threw, or returned choices (choices[0].message
\* absent or present, its content null or a string).
LLMError == [ok |-> FALSE, message |-> None]
NoChoice == [ok |-> TRUE, message |-> None]
Msg(c) == [ok |-> TRUE, message |-> Some([role |-> "assistant", content |-> c])]
\* completion.choices[0]?.message?.content
Content(completion) ==
    IF IsSome(completion.message) THEN Val(completion.message).content ELSE None

LocationCompletions ==
    {LLMError, NoChoice, Msg(None), Msg(Some(<<>>)), Msg(Some(<<" ">>)),
     Msg(Some(NullStr)), Msg(Some(<<"N","u","l","l","\n">>)),
     Msg(Some(ParisStr)), Msg(Some(<<" ">> \o OzStr))}
QueryTypeCompletions ==
    {LLMError, NoChoice, Msg(Some(ForecastStr)),
     Msg(Some(<<" ","F","o","r","e","c","a","s","t","\n">>)),
     Msg(Some(MixedStr)), Msg(Some(CurrentStr)), Msg(Some(Haze))}
TimezoneCompletions ==
    {LLMError, Msg(None), Msg(Some(<<" ">>)), Msg(Some(<<"C","E","T">>))}
SynthCompletions ==
    {LLMError, NoChoice, Msg(Some(<<>>)), Msg(Some(<<"o","k">>))}
GenericCompletions ==
    {LLMError, NoChoice, Msg(Some(<<>>)), Msg(Some(<<"h","i">>))}

\* The request body: req.json() throws, or yields an object whose messages
\* field is absent or a list of {role, content}.
UserMsg(c) == [role |-> "user", content |-> c]
AsstMsg(c) == [role |-> "assistant", content |-> c]
Bodies ==
    {[json |-> FALSE, messages |-> None],
     [json |-> TRUE, messages |-> None],
     [json |-> TRUE, messages |-> Some(<<>>)],
     [json |-> TRUE, messages |-> Some(<<UserMsg(ThanksText)>>)],
     [json |-> TRUE, messages |-> Some(<<UserMsg(WeatherInTokyo)>>)],
     [json |-> TRUE, messages |->
        Some(<<UserMsg(WeatherInTokyo), AsstMsg(CurrentWeatherInfo),
               UserMsg(WhatAboutTomorrow)>>)]}

\* The geocoder: fetch/json threw, or the JSON was null, an array (limit=1)
\* or an error object such as {cod: 401, message}.
GeoEntry(lat, lon) == [lat |-> lat, lon |-> lon]
GeoAnswers ==
    {[kind |-> "throw", list |-> <<>>],
     [kind |-> "null", list |-> <<>>],
     [kind |-> "object", list |-> <<>>],
     [kind |-> "array", list |-> <<>>],
     [kind |-> "array", list |-> <<GeoEntry(49, 2)>>],
     [kind |-> "array", list |-> <<GeoEntry(-34, 151)>>]}

\* /data/2.5/weather: temp, feels_like and wind in tenths; times in seconds.
NoWeather ==
    [name |-> <<>>, temp |-> 0, feels_like |-> 0, humidity |-> 0,
     description |-> <<>>, wind |-> 0, sunrise |-> 0, sunset |-> 0,
     timezone |-> 0]
WeatherBodies ==
    {[name |-> ParisStr, temp |-> 184, feels_like |-> 175, humidity |-> 60,
      description |-> ClearSky, wind |-> 35, sunrise |-> 190800,
      sunset |-> 244500, timezone |-> 7200],
     [name |-> <<>>, temp |-> -25, feels_like |-> -96, humidity |-> 93,
      description |-> LightRain, wind |-> 124, sunrise |-> 216300,
      sunset |-> 259140, timezone |-> -18000]}
WeatherAnswers ==
    {[thrown |-> TRUE, status |-> 0, message |-> None, data |-> NoWeather],
     [thrown |-> FALSE, status |-> 404,
      message |-> Some(ProviderCityNotFound), data |-> NoWeather],
     [thrown |-> FALSE, status |-> 401,
      message |-> Some(InvalidApiKey), data |-> NoWeather],
     [thrown |-> FALSE, status |-> 500, message |-> None, data |-> NoWeather]}
    \cup {[thrown |-> FALSE, status |-> 200, message |-> None, data |-> w] :
            w \in WeatherBodies}

\* /data/2.5/forecast: a list of samples, `step` seconds apart.
Sample(dt, i) ==
    [dt |-> dt, temp |-> 100 + 17 * i - 4 * i * i,
     description |-> IF i % 2 = 0 THEN FewClouds ELSE LightRain,
     icon |-> IF i % 2 = 0 THEN "02d" ELSE "10d"]
FeedOf(start, step, n) == [i \in 1..n |-> Sample(start + (i - 1) * step, i)]
Feeds ==
    {FeedOf(start, step, n) :
        start \in {86400, 162000}, step \in {10800, 86400},
        n \in {0, 3, MaxSamples}}
ForecastAnswers ==
    {[thrown |-> TRUE, status |-> 0, message |-> None, list |-> <<>>],
     [thrown |-> FALSE, status |-> 429,
      message |-> Some(LimitExceeded), list |-> <<>>],
     [thrown |-> FALSE, status |-> 500, message |-> Some(<<>>), list |-> <<>>]}
    \cup {[thrown |-> FALSE, status |-> 200, message |-> None, list |-> f] :
            f \in Feeds}

\* The answers drawn while two invocations are in flight: fewer of each
\* kind, a failing one and a succeeding one.
FewBodies ==
    {b \in Bodies :
        \/ ~b.json
        \/ b.messages \in {Some(<<UserMsg(ThanksText)>>),
                            Some(<<UserMsg(WeatherInTokyo)>>)}}
FewLocationCompletions ==
    {LLMError, Msg(Some(ParisStr)), Msg(Some(<<" ">> \o OzStr))}
FewQueryTypeCompletions == {LLMError, Msg(Some(ForecastStr))}
FewTimezoneCompletions == {LLMError, Msg(Some(<<"C","E","T">>))}
FewSynthCompletions == {LLMError, Msg(Some(<<"o","k">>))}
FewGenericCompletions == {NoChoice, Msg(Some(<<"h","i">>))}
FewGeoAnswers ==
    {a \in GeoAnswers : a.kind = "array" /\ a.list \in {<<>>, <<GeoEntry(49, 2)>>}}
FewWeatherAnswers ==
    {a \in WeatherAnswers :
        a.status = 404 \/ (a.status = 200 /\ a.data.name = ParisStr)}
FewForecastAnswers ==
    {a \in ForecastAnswers :
        a.status = 429 \/ (a.status = 200 /\ a.list = FeedOf(86400, 86400, 3))}

\* ------------------------------------------------------ pure functions
\* Mutant: 'null' is recognised in lower case only.
parseLocationCaseSensitive(completion) ==
    IF ~completion.ok THEN None
    ELSE IF ~Truthy(Content(completion)) THEN None
    ELSE LET result == Trim(Val(Content(completion)))
         IN  IF result = NullStr THEN None ELSE Some(result)

\* parseLocationFromMessage, from the completion to its return value:
\* null (None) or the trimmed text.
parseLocationFromMessage(completion) ==
    IF ~completion.ok THEN None
    ELSE IF ~Truthy(Content(completion)) THEN None
    ELSE LET result == Trim(Val(Content(completion)))
         IN  IF result = NullStr \/ ToLowerCase(result) = NullStr
             THEN None ELSE Some(result)

\* analyzeWeatherQueryType, from the completion to the returned type.
analyzeWeatherQueryType(completion) ==
    IF ~completion.ok THEN "current"
    ELSE LET c == Content(completion)
             result == IF IsSome(c) THEN Some(ToLowerCase(Trim(Val(c)))) ELSE None
         IN  IF result = Some(ForecastStr) THEN "forecast"
             ELSE IF result = Some(MixedStr) THEN "mixed"
             ELSE "current"

\* getTimezoneFromCoordinates, from the completion to the display name.
getTimezoneFromCoordinates(completion) ==
    IF ~completion.ok THEN LocalTime
    ELSE LET c == Content(completion)
             timezoneName == IF IsSome(c) THEN Some(Trim(Val(c))) ELSE None
         IN  IF Truthy(timezoneName) THEN Val(timezoneName) ELSE LocalTime

getWeatherEmoji(description) ==
    LET desc == ToLowerCase(description)
    IN  IF Includes(desc, <<"c","l","e","a","r">>) THEN "sun"
        ELSE IF Includes(desc, <<"c","l","o","u","d">>) THEN "cloud"
        ELSE IF Includes(desc, <<"r","a","i","n">>) THEN "rain"
        ELSE IF Includes(desc, <<"s","n","o","w">>) THEN "snow"
        ELSE IF Includes(desc, <<"t","h","u","n","d","e","r">>) THEN "thunder"
        ELSE IF Includes(desc, <<"m","i","s","t">>)
                \/ Includes(desc, <<"f","o","g">>) THEN "fog"
        ELSE "thermometer"

\* new Date(ms).toISOString().split('T')[0]: the UTC calendar day, as the
\* number of days since the epoch.
IsoDate(ms) == ms \div 86400000

\* Mutant: a later sample of a date replaces the entry of that date.
RECURSIVE reduceForecastLastWins(_, _)
reduceForecastLastWins(acc, list) ==
    IF list = <<>> THEN acc
    ELSE LET item == Head(list)
             date == IsoDate(item.dt * 1000)
             entry == [date |-> item.dt * 1000,
                       temp |-> MathRound(item.temp),
                       description |-> item.description,
                       icon |-> item.icon]
             existingForecast ==
                 \E k \in 1..Len(acc) : IsoDate(acc[k].date) = date
         IN  reduceForecastLastWins(
                 IF existingForecast
                 THEN [k \in 1..Len(acc) |->
                          IF IsoDate(acc[k].date) = date THEN entry ELSE acc[k]]
                 ELSE Append(acc, entry),
                 Tail(list))

\* The reduce of getWeatherData: a sample is pushed unless an entry of its
\* UTC date is in the accumulator already.
RECURSIVE reduceForecast(_, _)
reduceForecast(acc, list) ==
    IF list = <<>> THEN acc
    ELSE LET item == Head(list)
             date == IsoDate(item.dt * 1000)
             existingForecast ==
                 \E k \in 1..Len(acc) : IsoDate(acc[k].date) = date
         IN  reduceForecast(
                 IF existingForecast THEN acc
                 ELSE Append(acc, [date |-> item.dt * 1000,
                                   temp |-> MathRound(item.temp),
                                   description |-> item.description,
                                   icon |-> item.icon]),
                 Tail(list))

\* Array.prototype.slice(0, n).
Slice(s, n) == SubSeq(s, 1, IF Len(s) < n THEN Len(s) ELSE n)

processForecast(list) == Slice(reduceForecast(<<>>, list), 7)

\* Mutant: with the fallback zone name the time is left in 24-hour notation.
formatTimeFallback24h(seconds, zone) ==
    LET ms == (seconds * 1000) % 86400000
        hour24 == ms \div 3600000
    IN  [hour |-> IF zone = LocalTime THEN hour24
                  ELSE IF hour24 % 12 = 0 THEN 12 ELSE hour24 % 12,
         minute |-> (ms % 3600000) \div 60000,
         period |-> IF zone = LocalTime THEN ""
                    ELSE IF hour24 < 12 THEN "AM" ELSE "PM",
         zone |-> zone]

\* new Date(seconds * 1000).toLocaleTimeString('en-US', {hour: '2-digit',
\* minute: '2-digit', hour12: true, timeZone: 'UTC'}) + ` (${zone})`.
formatTime(seconds, zone) ==
    LET ms == (seconds * 1000) % 86400000
        hour24 == ms \div 3600000
    IN  [hour |-> IF hour24 % 12 = 0 THEN 12 ELSE hour24 % 12,
         minute |-> (ms % 3600000) \div 60000,
         period |-> IF hour24 < 12 THEN "AM" ELSE "PM",
         zone |-> zone]

\* The record getWeatherData returns.
weatherRecord(geo, w, daily, zone) ==
    [city |-> w.name,
     coordinates |-> [lat |-> geo.lat, lon |-> geo.lon],
     temperature |-> MathRound(w.temp),
     feels_like |-> MathRound(w.feels_like),
     description |-> w.description,
     humidity |-> w.humidity,
     wind_speed |-> MathRound(w.wind),
     sunrise |-> formatTime(w.sunrise + w.timezone, zone),
     sunset |-> formatTime(w.sunset + w.timezone, zone),
     forecast |-> daily]

\* The record of the earlier variant: sunrise and sunset are formatted
\* without the offset and without a zone name (the server's zone, taken to
\* be UTC).
weatherRecordEarlier(geo, w, daily) ==
    [weatherRecord(geo, w, daily, <<>>) EXCEPT
        !.sunrise = formatTime(w.sunrise, <<>>),
        !.sunset = formatTime(w.sunset, <<>>)]

\* ------------------------------------------------------------ responses
\* What NextResponse.json is given: status, and the body's role, content and
\* weatherData; the content is the text of the model, the apology naming a
\* place or the fallback sentence naming the city.
NoContent == [tmpl |-> "none", text |-> <<>>, place |-> <<>>, emoji |-> ""]
ErrorResponse ==
    [status |-> 500, error |-> TRUE, role |-> "", content |-> NoContent,
     weatherData |-> None]
\* Mutant: the apology does not name the place.
ApologyWithoutPlace(location) ==
    [status |-> 200, error |-> FALSE, role |-> "assistant",
     content |-> [tmpl |-> "apology", text |-> <<>>, place |-> <<>>,
                  emoji |-> ""],
     weatherData |-> None]
\* Mutant: no inner catch, the throw reaches the outer catch.
ApologyRethrown(location) == ErrorResponse
ApologyResponse(location) ==
    [status |-> 200, error |-> FALSE, role |-> "assistant",
     content |-> [tmpl |-> "apology", text |-> <<>>, place |-> location,
                  emoji |-> ""],
     weatherData |-> None]
\* Mutant: the temperature of the payload is the felt temperature.
WeatherResponseFeltTemperature(completion, wd, emoji) ==
    [status |-> 200, error |-> FALSE, role |-> "assistant",
     content |-> IF Truthy(Content(completion))
                 THEN [tmpl |-> "llm", text |-> Val(Content(completion)),
                       place |-> <<>>, emoji |-> ""]
                 ELSE [tmpl |-> "fallback", text |-> <<>>, place |-> wd.city,
                       emoji |-> emoji],
     weatherData |-> Some([coordinates |-> wd.coordinates,
                           city |-> wd.city,
                           temperature |-> wd.feels_like,
                           feels_like |-> wd.feels_like,
                           description |-> wd.description,
                           humidity |-> wd.humidity,
                           wind_speed |-> wd.wind_speed,
                           sunrise |-> wd.sunrise,
                           sunset |-> wd.sunset,
                           forecast |-> wd.forecast])]
\* contextualResponse.choices[0]?.message?.content || `Here's the weather
\* information for ${weatherData.city}! ${emoji}`, and the payload copied
\* from the record field by field.
WeatherResponse(completion, wd, emoji) ==
    [status |-> 200, error |-> FALSE, role |-> "assistant",
     content |-> IF Truthy(Content(completion))
                 THEN [tmpl |-> "llm", text |-> Val(Content(completion)),
                       place |-> <<>>, emoji |-> ""]
                 ELSE [tmpl |-> "fallback", text |-> <<>>, place |-> wd.city,
                       emoji |-> emoji],
     weatherData |-> Some([coordinates |-> wd.coordinates,
                           city |-> wd.city,
                           temperature |-> wd.temperature,
                           feels_like |-> wd.feels_like,
                           description |-> wd.description,
                           humidity |-> wd.humidity,
                           wind_speed |-> wd.wind_speed,
                           sunrise |-> wd.sunrise,
                           sunset |-> wd.sunset,
                           forecast |-> wd.forecast])]
\* NextResponse.json(completion.choices[0].message)
GenericResponse(message) ==
    [status |-> 200, error |-> FALSE, role |-> message.role,
     content |-> [tmpl |-> "llm",
                  text |-> IF IsSome(message.content)
                           THEN Val(message.content) ELSE <<>>,
                  place |-> <<>>, emoji |-> ""],
     weatherData |-> None]

\* ---------------------------------------------------------------- state
VARIABLES
    variant,        \* which version of the route is deployed
    env,            \* process.env: which API keys are set
    pc,             \* where the module / the POST handler stands
    turn,           \* number of the request being handled
    body,           \* the request body of this turn (None before it is read)
    location,       \* POST's `location`: null or a string
    geo,            \* getWeatherData's {lat, lon}
    weather,        \* getWeatherData's weatherData (the provider's JSON)
    daily,          \* getWeatherData's dailyForecasts
    weatherData,    \* POST's `weatherData`: the record getWeatherData returned
    queryAnalysis,  \* POST's `queryAnalysis.type`
    response,       \* the response returned for this turn
    inflight,       \* external calls awaited and not yet answered
    log,            \* this turn's events: <<"issue"|"ok"|"fail", call>>
    completions,    \* the classifier completions received in this turn
    received,       \* the other answers received in this turn
    nResponses,     \* responses returned in this turn
    caught,         \* the message of the error POST's catch was given
    located,        \* the locations classified so far, one per located turn
    geocodeRequests,\* geocoding requests sent since the process started
    gwInput,        \* getWeatherData called on its own: the answers it is given
    gwResults,      \* what its invocations returned, in order
    themePc,        \* ThemeProvider: "unmounted", "loading" or "mounted"
    isDark,         \* ThemeProvider's state isDark, as last set
    rendered,       \* the isDark of the last render, which toggleTheme closes over
    stored,         \* localStorage's 'darkMode': absent or a string
    darkClass,      \* the document root has the class 'dark'
    toggles,        \* calls of toggleTheme so far
    reloads,        \* reloads of the page so far
    parked,         \* a second invocation of POST, while the first one runs
    feed,           \* forecast normalisation on its own: the provider's list
    days,           \* the `days` argument given to the client's tool call
    routeForecast,  \* what getWeatherData makes of the list
    clientForecast, \* what getWeatherForecastDirect makes of it
    sun,            \* sunrise/sunset formatting on its own: the provider's sys and timezone
    hostOffset,     \* the UTC offset of the machine's time zone, in seconds
    chatTimes,      \* sunrise and sunset as the chat route's getWeatherData shows them
    weatherTimes,   \* as the weather route's GET shows them
    clientTimes,    \* as the client's getCurrentWeatherDirect shows them
    chats,          \* Firestore's collection 'chats': the messages of each document
    lastCall,       \* addMessage called on its own: the last call and how it ended
    currentChatId,  \* Chat's state currentChatId: null or a document id
    messages,       \* Chat's state messages
    isLoading,      \* Chat's state isLoading
    selectedWeatherData,\* Chat's state selectedWeatherData
    isMapOpen,      \* Chat's state isMapOpen
    showForecast,   \* Chat's state showForecast
    synced,         \* the onSnapshot listener has delivered the document as it is now
    submits,        \* the invocations of handleSubmit and of the sample questions' onClick
    deleteModal,    \* Dashboard's deleteModal.chatId while the modal is open
    deleting,       \* handleConfirmDelete awaiting deleteChat: the chat and the currentChatId it closed over
    deletions,      \* deletions confirmed so far
    toolRequest,    \* MCP server: the tool call last handled
    toolResult,     \* MCP server: its result, and the provider requests made
    toolCalls,      \* MCP server: tool calls handled
    isConnected,    \* WeatherMCPClient._isConnected
    clientResult,   \* WeatherMCPClient: the operation last made and its outcome
    clientOps       \* WeatherMCPClient: operations made

locals == <<location, geo, weather, daily, weatherData, queryAnalysis>>
counts == <<located, geocodeRequests>>
theme == <<themePc, isDark, rendered, stored, darkClass, toggles, reloads>>
forecasting == <<feed, days, routeForecast, clientForecast>>
clock == <<sun, hostOffset, chatTimes, weatherTimes, clientTimes>>
session == <<chats, lastCall, currentChatId, messages, isLoading, selectedWeatherData, isMapOpen, showForecast, synced, submits, deleteModal, deleting, deletions>>
mcp == <<toolRequest, toolResult, toolCalls>>
client == <<isConnected, clientResult, clientOps>>
apart == <<forecasting, clock, session, mcp, client>>
aside == <<gwInput, gwResults, theme, apart>>
frame == <<variant, env, turn, aside, parked>>
vars == <<variant, env, pc, turn, body, location, geo, weather, daily, weatherData,
          queryAnalysis, response, inflight, log, completions, received,
          nResponses, caught, located, geocodeRequests, gwInput, gwResults,
          themePc, isDark, rendered, stored, darkClass, toggles, reloads, parked,
          feed, days, routeForecast, clientForecast,
          sun, hostOffset, chatTimes, weatherTimes, clientTimes,
          chats, lastCall, currentChatId, messages, isLoading, selectedWeatherData, isMapOpen, showForecast, synced, submits, deleteModal, deleting, deletions,
          toolRequest, toolResult, toolCalls,
          isConnected, clientResult, clientOps>>

NoCompletions == [location |-> None, queryType |-> None]
NothingReceived ==
    [geocode |-> None, weather |-> None, forecast |-> None,
     timezone |-> None, synth |-> None, generic |-> None]

\* The ids of the documents of 'chats': one chat of an earlier visit and one
\* for each turn that may create a chat.
ChatIds == 1..(MaxSessionSubmits + 1)

\* The parts of the repository beside the chat route, each at rest unless it
\* is the part `x` a specification is about.
GatewayIdle == gwInput = None /\ gwResults = <<>>
ThemeIdle ==
    /\ themePc = "unmounted"
    /\ isDark = FALSE
    /\ rendered = FALSE
    /\ stored = None
    /\ darkClass = FALSE
    /\ toggles = 0
    /\ reloads = 0
ForecastingIdle ==
    /\ feed = <<>>
    /\ days = None
    /\ routeForecast = None
    /\ clientForecast = None
ClockIdle ==
    /\ sun = None
    /\ hostOffset = 0
    /\ chatTimes = None
    /\ weatherTimes = None
    /\ clientTimes = None
SessionIdle ==
    /\ chats = [c \in ChatIds |-> None]
    /\ lastCall = None
    /\ currentChatId = None
    /\ messages = <<>>
    /\ isLoading = FALSE
    /\ selectedWeatherData = None
    /\ isMapOpen = FALSE
    /\ showForecast = FALSE
    /\ synced = TRUE
    /\ submits = <<>>
    /\ deleteModal = None
    /\ deleting = None
    /\ deletions = 0
McpIdle ==
    /\ toolRequest = None
    /\ toolResult = None
    /\ toolCalls = 0
ClientIdle ==
    /\ isConnected = FALSE
    /\ clientResult = None
    /\ clientOps = 0
Elsewhere(x) ==
    /\ (x # "forecasting" => ForecastingIdle)
    /\ (x # "clock" => ClockIdle)
    /\ (x # "session" => SessionIdle)
    /\ (x # "mcp" => McpIdle)
    /\ (x # "client" => ClientIdle)
Rest(x) ==
    /\ (IF x = "forecasting" THEN TRUE ELSE UNCHANGED forecasting)
    /\ (IF x = "clock" THEN TRUE ELSE UNCHANGED clock)
    /\ (IF x = "session" THEN TRUE ELSE UNCHANGED session)
    /\ (IF x = "mcp" THEN TRUE ELSE UNCHANGED mcp)
    /\ (IF x = "client" THEN TRUE ELSE UNCHANGED client)

\* The route as it is (route.ts), or its earlier variant with the keyword
\* pre-filter.
Variants == {"route", "earlier"}

Start ==
    /\ env \in [GROQ_API_KEY : BOOLEAN, OPENWEATHER_API_KEY : BOOLEAN]
    /\ pc = "load"
    /\ turn = 0
    /\ body = None
    /\ location = None
    /\ geo = None
    /\ weather = None
    /\ daily = <<>>
    /\ weatherData = None
    /\ queryAnalysis = None
    /\ response = None
    /\ inflight = {}
    /\ log = <<>>
    /\ completions = NoCompletions
    /\ received = NothingReceived
    /\ nResponses = 0
    /\ caught = None
    /\ located = <<>>
    /\ geocodeRequests = 0
    /\ gwInput = None
    /\ gwResults = <<>>
    /\ themePc = "unmounted"
    /\ isDark = FALSE
    /\ rendered = FALSE
    /\ stored = None
    /\ darkClass = FALSE
    /\ toggles = 0
    /\ reloads = 0
    /\ Elsewhere("route")

Init == Start /\ variant = "route" /\ parked = None
VariantInit == Start /\ variant \in Variants /\ parked = None

\* ------------------------------------------------------------- helpers
\* The awaited `call` is answered (ok: it resolved with success) and the
\* handler runs on to await the calls of `next`.
Settle(call, ok, next) ==
    /\ inflight' = (inflight \ {call}) \cup {next[i] : i \in 1..Len(next)}
    /\ log' = log \o <<<<IF ok THEN "ok" ELSE "fail", call>>>>
                  \o [i \in 1..Len(next) |-> <<"issue", next[i]>>]

\* The answers an action draws from: all of them, or the few of the
\* specification with two invocations.
Draw(all, few) == IF IsSome(parked) THEN few ELSE all

\* The answer `x` to the call `f` of this invocation, written down where two
\* invocations run.
Receive(f, x) ==
    received' = IF IsSome(parked) THEN [received EXCEPT ![f] = Some(x)]
                ELSE received

\* return NextResponse.json(...)
Respond(r) ==
    /\ pc' = "done"
    /\ response' = Some(r)
    /\ nResponses' = nResponses + 1
    /\ UNCHANGED caught

\* catch (error) { console.error(..., error); return NextResponse.json(...) }
Catch(error, r) ==
    /\ pc' = "done"
    /\ response' = Some(r)
    /\ nResponses' = nResponses + 1
    /\ caught' = Some(error)

Goto(p) ==
    /\ pc' = p
    /\ UNCHANGED <<response, nResponses, caught>>

\* Mutant: `location !== null` in place of the truthiness test.
isWeatherQueryNotNull(loc) == IsSome(loc)
\* if (location)
isWeatherQuery(loc) == Truthy(loc)

\* Mutant: the message is not lower-cased before the keywords are looked for.
containsWeatherKeywordCaseSensitive(lastMessage) ==
    \E keyword \in weatherKeywords : Includes(lastMessage, keyword)
\* weatherKeywords.some(keyword =>
\*     messageText.includes(keyword.toLowerCase()))
containsWeatherKeyword(lastMessage) ==
    LET messageText == ToLowerCase(lastMessage)
    IN  \E keyword \in weatherKeywords :
            Includes(messageText, ToLowerCase(keyword))

\* messages[messages.length - 1].content
lastMessageOf(b) == Val(b.messages)[Len(Val(b.messages))].content

\* const { messages } = await req.json();
\* const lastMessage = messages[messages.length - 1].content;
bodyThrows(b) ==
    \/ ~b.json
    \/ ~IsSome(b.messages)
    \/ Len(Val(b.messages)) = 0

\* if (!geoData || geoData.length === 0) throw; const {lat, lon} = geoData[0]
geocodeThrows(a) ==
    \/ a.kind \in {"throw", "null", "object"}
    \/ a.kind = "array" /\ Len(a.list) = 0

\* Mutant: the status of the response is not looked at.
fetchThrowsStatusIgnored(a) == a.thrown
\* if (response.status !== 200) throw
fetchThrows(a) == a.thrown \/ a.status # 200

\* The message of the error the Gateway throws: fetch's or json()'s own, the
\* destructuring's, or new Error(data.message || fallback).
geocodeError(a) ==
    IF a.kind = "throw" THEN FetchFailed
    ELSE IF a.kind = "object" THEN CannotDestructure
    ELSE CityNotFound
fetchError(a, fallback) ==
    IF a.thrown THEN FetchFailed
    ELSE IF Truthy(a.message) THEN Val(a.message)
    ELSE fallback

\* What the outside world did, whatever the code makes of it: the geocoder
\* found the place; the provider answered with success.
geoFound(a) == a.kind = "array" /\ Len(a.list) > 0
providerOk(a) == ~a.thrown /\ a.status = 200

\* -------------------------------------------------------------- actions
\* Module load: `if (!process.env.GROQ_API_KEY) throw` and the client.
ModuleLoad ==
    /\ pc = "load"
    /\ pc' = IF env.GROQ_API_KEY THEN "idle" ELSE "crashed"
    /\ UNCHANGED <<frame, counts, body, locals, response, inflight, log,
                   completions, received, nResponses, caught>>

\* POST, up to the await of parseLocationFromMessage's completion. A body
\* that makes lines 285-286 throw is answered by the outer catch. In the
\* earlier variant a message without weather keyword goes to the generic
\* completion at once.
POST ==
    /\ pc = "idle"
    /\ \E b \in Draw(Bodies, FewBodies) :
        /\ body' = Some(b)
        /\ IF bodyThrows(b)
           THEN /\ Catch(BadRequestBody, ErrorResponse)
                /\ log' = Append(log, <<"fail", "body">>)
                /\ UNCHANGED inflight
           ELSE IF variant = "earlier"
                    /\ ~containsWeatherKeyword(lastMessageOf(b))
           THEN /\ Goto("awaitGeneric")
                /\ log' = log \o <<<<"ok", "body">>, <<"issue", "llm_generic">>>>
                /\ inflight' = inflight \cup {"llm_generic"}
           ELSE /\ Goto("awaitLocation")
                /\ log' = log \o <<<<"ok", "body">>, <<"issue", "llm_location">>>>
                /\ inflight' = inflight \cup {"llm_location"}
    /\ UNCHANGED <<frame, counts, locals, completions, received>>

\* Mutant: the coordinates of a place an earlier turn asked for are kept and
\* the geocoding request is skipped.
LocationReturnCached ==
    /\ pc = "awaitLocation"
    /\ \E c \in Draw(LocationCompletions, FewLocationCompletions) :
        LET loc == parseLocationFromMessage(c)
            hit == IsSome(loc) /\ \E i \in 1..Len(located) : located[i] = Val(loc)
        IN  /\ location' = loc
            /\ completions' = [completions EXCEPT !.location = Some(c)]
            /\ IF isWeatherQuery(loc)
               THEN /\ located' = Append(located, Val(loc))
                    /\ IF env.OPENWEATHER_API_KEY
                       THEN /\ Settle("llm_location", c.ok,
                                      IF hit THEN <<"weather">> ELSE <<"geocode">>)
                            /\ Goto(IF hit THEN "awaitWeather" ELSE "awaitGeocode")
                            /\ geo' = IF hit THEN Some(GeoEntry(49, 2)) ELSE geo
                            /\ geocodeRequests' =
                                    geocodeRequests + (IF hit THEN 0 ELSE 1)
                       ELSE /\ inflight' = inflight \ {"llm_location"}
                            /\ log' = log \o <<<<IF c.ok THEN "ok" ELSE "fail",
                                                  "llm_location">>,
                                                <<"fail", "config">>>>
                            /\ Catch(KeyNotConfigured,
                                     ApologyResponse(Val(loc)))
                            /\ UNCHANGED <<geocodeRequests, geo>>
               ELSE /\ Settle("llm_location", c.ok, <<"llm_generic">>)
                    /\ Goto("awaitGeneric")
                    /\ UNCHANGED <<counts, geo>>
    /\ UNCHANGED <<frame, body, weather, daily, weatherData,
                   queryAnalysis, received>>

\* parseLocationFromMessage returns; with a location, getWeatherData starts
\* (the key check, then the geocoding request); without one, the generic
\* completion is requested.
LocationReturn ==
    /\ pc = "awaitLocation"
    /\ \E c \in Draw(LocationCompletions, FewLocationCompletions) :
        LET loc == parseLocationFromMessage(c)
        IN  /\ location' = loc
            /\ completions' = [completions EXCEPT !.location = Some(c)]
            /\ IF isWeatherQuery(loc)
               THEN /\ located' = Append(located, Val(loc))
                    /\ IF env.OPENWEATHER_API_KEY
                       THEN /\ Settle("llm_location", c.ok, <<"geocode">>)
                            /\ Goto("awaitGeocode")
                            /\ geocodeRequests' = geocodeRequests + 1
                       ELSE /\ inflight' = inflight \ {"llm_location"}
                            /\ log' = log \o <<<<IF c.ok THEN "ok" ELSE "fail",
                                                  "llm_location">>,
                                                <<"fail", "config">>>>
                            /\ Catch(KeyNotConfigured,
                                     ApologyResponse(Val(loc)))
                            /\ UNCHANGED geocodeRequests
               ELSE /\ Settle("llm_location", c.ok, <<"llm_generic">>)
                    /\ Goto("awaitGeneric")
                    /\ UNCHANGED counts
    /\ UNCHANGED <<frame, body, geo, weather, daily, weatherData,
                   queryAnalysis, received>>

\* Mutant: weather and forecast are requested together (Promise.all).
GeocodeReturnParallel ==
    /\ pc = "awaitGeocode"
    /\ \E a \in Draw(GeoAnswers, FewGeoAnswers) :
        /\ Receive("geocode", a)
        /\ IF geocodeThrows(a)
           THEN /\ Settle("geocode", geoFound(a), <<>>)
                /\ Catch(geocodeError(a), ApologyResponse(Val(location)))
                /\ UNCHANGED geo
           ELSE /\ Settle("geocode", geoFound(a), <<"weather", "forecast">>)
                /\ Goto("awaitWeather")
                /\ geo' = Some(a.list[1])
    /\ UNCHANGED <<frame, counts, body, location, weather, daily, weatherData,
                   queryAnalysis, completions>>

\* Mutant: a failed geocoding request is sent once more.
GeocodeReturnRetry ==
    /\ pc = "awaitGeocode"
    /\ \E a \in Draw(GeoAnswers, FewGeoAnswers) :
        /\ Receive("geocode", a)
        /\ IF geocodeThrows(a)
           THEN IF Len(log) < 6
                THEN /\ Settle("geocode", geoFound(a), <<"geocode">>)
                     /\ Goto("awaitGeocode")
                     /\ UNCHANGED geo
                ELSE /\ Settle("geocode", geoFound(a), <<>>)
                     /\ Catch(geocodeError(a), ApologyResponse(Val(location)))
                     /\ UNCHANGED geo
           ELSE /\ Settle("geocode", geoFound(a), <<"weather">>)
                /\ Goto("awaitWeather")
                /\ geo' = Some(a.list[1])
    /\ geocodeRequests' =
            geocodeRequests + (IF "geocode" \in inflight' THEN 1 ELSE 0)
    /\ UNCHANGED <<frame, located, body, location, weather, daily, weatherData,
                   queryAnalysis, completions>>

\* The geocoder answers.
GeocodeReturn ==
    /\ pc = "awaitGeocode"
    /\ \E a \in Draw(GeoAnswers, FewGeoAnswers) :
        /\ Receive("geocode", a)
        /\ IF geocodeThrows(a)
           THEN /\ Settle("geocode", geoFound(a), <<>>)
                /\ Catch(geocodeError(a), ApologyResponse(Val(location)))
                /\ UNCHANGED geo
           ELSE /\ Settle("geocode", geoFound(a), <<"weather">>)
                /\ Goto("awaitWeather")
                /\ geo' = Some(a.list[1])
    /\ UNCHANGED <<frame, counts, body, location, weather, daily, weatherData,
                   queryAnalysis, completions>>

\* Mutant: the forecast feed is not requested.
WeatherReturnSkipForecast ==
    /\ pc = "awaitWeather"
    /\ \E a \in Draw(WeatherAnswers, FewWeatherAnswers) :
        /\ Receive("weather", a)
        /\ IF fetchThrows(a)
           THEN /\ Settle("weather", providerOk(a), <<>>)
                /\ Catch(fetchError(a, FailedWeather),
                         ApologyResponse(Val(location)))
                /\ UNCHANGED weather
           ELSE /\ Settle("weather", providerOk(a), <<"llm_timezone">>)
                /\ Goto("awaitTimezone")
                /\ weather' = Some(a.data)
    /\ UNCHANGED <<frame, counts, body, location, geo, daily, weatherData,
                   queryAnalysis, completions>>

\* Mutant: the apology quotes the message of the error.
WeatherReturnQuotesError ==
    /\ pc = "awaitWeather"
    /\ \E a \in Draw(WeatherAnswers, FewWeatherAnswers) :
        /\ Receive("weather", a)
        /\ IF fetchThrows(a)
           THEN /\ Settle("weather", providerOk(a), <<>>)
                /\ Catch(fetchError(a, FailedWeather),
                         [ApologyResponse(Val(location)) EXCEPT
                             !.content.text = fetchError(a, FailedWeather)])
                /\ UNCHANGED weather
           ELSE /\ Settle("weather", providerOk(a), <<"forecast">>)
                /\ Goto("awaitForecast")
                /\ weather' = Some(a.data)
    /\ UNCHANGED <<frame, counts, body, location, geo, daily, weatherData,
                   queryAnalysis, completions>>

\* The current-conditions request answers.
WeatherReturn ==
    /\ pc = "awaitWeather"
    /\ \E a \in Draw(WeatherAnswers, FewWeatherAnswers) :
        /\ Receive("weather", a)
        /\ IF fetchThrows(a)
           THEN /\ Settle("weather", providerOk(a), <<>>)
                /\ Catch(fetchError(a, FailedWeather),
                         ApologyResponse(Val(location)))
                /\ UNCHANGED weather
           ELSE /\ Settle("weather", providerOk(a), <<"forecast">>)
                /\ Goto("awaitForecast")
                /\ weather' = Some(a.data)
    /\ UNCHANGED <<frame, counts, body, location, geo, daily, weatherData,
                   queryAnalysis, completions>>

\* The forecast request answers; the feed is reduced to daily entries and
\* the timezone name is asked for.
ForecastReturn ==
    /\ pc = "awaitForecast"
    /\ \E a \in Draw(ForecastAnswers, FewForecastAnswers) :
        /\ Receive("forecast", a)
        /\ IF fetchThrows(a)
           THEN /\ Settle("forecast", providerOk(a), <<>>)
                /\ Catch(fetchError(a, FailedForecast),
                         ApologyResponse(Val(location)))
                /\ UNCHANGED <<daily, weatherData>>
           ELSE IF variant = "earlier"
           THEN /\ Settle("forecast", providerOk(a), <<"llm_querytype">>)
                /\ Goto("awaitQueryType")
                /\ daily' = processForecast(a.list)
                /\ weatherData' = Some(weatherRecordEarlier(
                                       Val(geo), Val(weather),
                                       processForecast(a.list)))
           ELSE /\ Settle("forecast", providerOk(a), <<"llm_timezone">>)
                /\ Goto("awaitTimezone")
                /\ daily' = processForecast(a.list)
                /\ UNCHANGED weatherData
    /\ UNCHANGED <<frame, counts, body, location, geo, weather,
                   queryAnalysis, completions>>

\* Mutant: the contextual response is requested before the query type.
TimezoneReturnSynthFirst ==
    /\ pc = "awaitTimezone"
    /\ \E c \in Draw(TimezoneCompletions, FewTimezoneCompletions) :
        /\ Receive("timezone", c)
        /\ weatherData' = Some(weatherRecord(Val(geo), Val(weather), daily,
                                             getTimezoneFromCoordinates(c)))
        /\ Settle("llm_timezone", c.ok, <<"llm_synth">>)
    /\ Goto("awaitSynth")
    /\ UNCHANGED <<frame, counts, body, location, geo, weather, daily,
                   queryAnalysis, completions>>

\* getTimezoneFromCoordinates returns, getWeatherData returns its record,
\* and POST asks for the query type.
TimezoneReturn ==
    /\ pc = "awaitTimezone"
    /\ \E c \in Draw(TimezoneCompletions, FewTimezoneCompletions) :
        /\ Receive("timezone", c)
        /\ weatherData' = Some(weatherRecord(Val(geo), Val(weather), daily,
                                             getTimezoneFromCoordinates(c)))
        /\ Settle("llm_timezone", c.ok, <<"llm_querytype">>)
    /\ Goto("awaitQueryType")
    /\ UNCHANGED <<frame, counts, body, location, geo, weather, daily,
                   queryAnalysis, completions>>

\* analyzeWeatherQueryType returns and the contextual response is requested.
QueryTypeReturn ==
    /\ pc = "awaitQueryType"
    /\ \E c \in Draw(QueryTypeCompletions, FewQueryTypeCompletions) :
        /\ queryAnalysis' = Some(analyzeWeatherQueryType(c))
        /\ completions' = [completions EXCEPT !.queryType = Some(c)]
        /\ Settle("llm_querytype", c.ok, <<"llm_synth">>)
    /\ Goto("awaitSynth")
    /\ UNCHANGED <<frame, counts, body, location, geo, weather, daily,
                   weatherData, received>>

\* The contextual completion answers: the weather response, or, when the
\* call threw, the inner catch's apology.
SynthReturn ==
    /\ pc = "awaitSynth"
    /\ \E c \in Draw(SynthCompletions, FewSynthCompletions) :
        /\ Receive("synth", c)
        /\ Settle("llm_synth", c.ok, <<>>)
        /\ IF c.ok
           THEN Respond(WeatherResponse(c, Val(weatherData),
                            getWeatherEmoji(Val(weatherData).description)))
           ELSE Catch(GroqError, ApologyResponse(Val(location)))
    /\ UNCHANGED <<frame, counts, body, locals, completions>>

\* The generic completion answers: its message is the response; a throw
\* (of the call, or of choices[0].message) reaches the outer catch.
GenericReturn ==
    /\ pc = "awaitGeneric"
    /\ \E c \in Draw(GenericCompletions, FewGenericCompletions) :
        /\ Receive("generic", c)
        /\ Settle("llm_generic", c.ok, <<>>)
        /\ IF c.ok /\ IsSome(c.message)
           THEN Respond(GenericResponse(Val(c.message)))
           ELSE Catch(IF c.ok THEN NoMessage ELSE GroqError, ErrorResponse)
    /\ UNCHANGED <<frame, counts, body, locals, completions>>

\* The next request arrives: the handler's locals are fresh.
NextRequest ==
    /\ pc = "done"
    /\ turn < MaxTurns - 1
    /\ pc' = "idle"
    /\ turn' = turn + 1
    /\ body' = None
    /\ location' = None
    /\ geo' = None
    /\ weather' = None
    /\ daily' = <<>>
    /\ weatherData' = None
    /\ queryAnalysis' = None
    /\ response' = None
    /\ inflight' = {}
    /\ log' = <<>>
    /\ completions' = NoCompletions
    /\ received' = NothingReceived
    /\ nResponses' = 0
    /\ caught' = None
    /\ UNCHANGED <<variant, counts, env, aside, parked>>

Next ==
    \/ ModuleLoad
    \/ POST
    \/ LocationReturn
    \/ GeocodeReturn
    \/ WeatherReturn
    \/ ForecastReturn
    \/ TimezoneReturn
    \/ QueryTypeReturn
    \/ SynthReturn
    \/ GenericReturn
    \/ NextRequest

Spec == Init /\ [][Next]_vars

\* ------------------------------------------- getWeatherData on its own
\* getWeatherData from the answers it is given to what it returns: its
\* record, or nothing when it throws.
getWeatherData(key, ga, wa, fa, tz) ==
    IF ~key \/ geocodeThrows(ga) \/ fetchThrows(wa) \/ fetchThrows(fa)
    THEN None
    ELSE Some(weatherRecord(ga.list[1], wa.data, processForecast(fa.list),
                            getTimezoneFromCoordinates(tz)))

\* How often getWeatherData is invoked on the same answers.
Invocations == 2

\* The route loaded and no request under way.
RouteIdle ==
    /\ variant = "route"
    /\ env = [GROQ_API_KEY |-> TRUE, OPENWEATHER_API_KEY |-> TRUE]
    /\ pc = "idle"
    /\ turn = 0
    /\ body = None
    /\ location = None
    /\ geo = None
    /\ weather = None
    /\ daily = <<>>
    /\ weatherData = None
    /\ queryAnalysis = None
    /\ response = None
    /\ inflight = {}
    /\ log = <<>>
    /\ completions = NoCompletions
    /\ received = NothingReceived
    /\ nResponses = 0
    /\ caught = None
    /\ located = <<>>
    /\ geocodeRequests = 0
    /\ parked = None
route == <<variant, env, pc, turn, body, locals, response, inflight, log,
           completions, received, nResponses, caught, counts, parked>>

GatewayInit ==
    /\ RouteIdle
    /\ Elsewhere("gateway")
    /\ themePc = "unmounted"
    /\ isDark = FALSE
    /\ rendered = FALSE
    /\ stored = None
    /\ darkClass = FALSE
    /\ toggles = 0
    /\ reloads = 0
    /\ gwInput \in {Some([geo |-> ga, weather |-> wa, forecast |-> fa]) :
                        ga \in GeoAnswers, wa \in WeatherAnswers,
                        fa \in ForecastAnswers}
    /\ gwResults = <<>>

\* One invocation of getWeatherData for the location: the geocoder and the
\* provider answer as before, the timezone completion is what it is.
GatewayCall ==
    /\ IsSome(gwInput)
    /\ Len(gwResults) < Invocations
    /\ \E tz \in TimezoneCompletions :
        gwResults' = Append(gwResults,
            [timezone |-> tz,
             record |-> getWeatherData(env.OPENWEATHER_API_KEY,
                            Val(gwInput).geo, Val(gwInput).weather,
                            Val(gwInput).forecast, tz)])
    /\ UNCHANGED <<route, gwInput, theme, apart>>

GatewaySpec == GatewayInit /\ [][GatewayCall]_vars

\* ------------------------------------------------------- ThemeProvider
\* Boolean.prototype.toString
BoolToString(b) == IF b THEN "true" ELSE "false"

\* The page is opened: localStorage holds what an earlier visit left.
ThemeInit ==
    /\ RouteIdle
    /\ Elsewhere("theme")
    /\ gwInput = None
    /\ gwResults = <<>>
    /\ themePc = "loading"
    /\ isDark = FALSE
    /\ rendered = FALSE
    /\ stored \in {None, Some("true"), Some("false")}
    /\ darkClass = FALSE
    /\ toggles = 0
    /\ reloads = 0

\* The first render (useState(false)), the effect and the render its
\* setIsDark causes.
ThemeMount ==
    /\ themePc = "loading"
    /\ themePc' = "mounted"
    /\ LET isDarkMode == (stored = Some("true"))
       IN  /\ isDark' = isDarkMode
           /\ rendered' = isDarkMode
           /\ darkClass' = (darkClass \/ isDarkMode)
    /\ UNCHANGED <<route, gwInput, gwResults, apart, stored, toggles, reloads>>

\* toggleTheme, with the isDark of the render that created it.
toggleTheme ==
    /\ themePc = "mounted"
    /\ toggles < MaxToggles
    /\ isDark' = ~rendered
    /\ stored' = Some(BoolToString(~rendered))
    /\ darkClass' = ~darkClass
    /\ toggles' = toggles + 1
    /\ UNCHANGED <<route, gwInput, gwResults, apart, themePc, rendered, reloads>>

\* The provider renders again after setIsDark: a new toggleTheme closes
\* over the new isDark.
ThemeRender ==
    /\ themePc = "mounted"
    /\ rendered # isDark
    /\ rendered' = isDark
    /\ UNCHANGED <<route, gwInput, gwResults, apart, themePc, isDark, stored,
                   darkClass, toggles, reloads>>

\* The page is loaded again: a new document, the same localStorage.
Reload ==
    /\ themePc = "mounted"
    /\ reloads < MaxReloads
    /\ themePc' = "loading"
    /\ isDark' = FALSE
    /\ rendered' = FALSE
    /\ darkClass' = FALSE
    /\ reloads' = reloads + 1
    /\ UNCHANGED <<route, gwInput, gwResults, apart, stored, toggles>>

ThemeNext ==
    \/ ThemeMount
    \/ toggleTheme
    \/ ThemeRender
    \/ Reload

ThemeSpec == ThemeInit /\ [][ThemeNext]_vars

\* ------------------------------------------------ two invocations of POST
\* What belongs to one invocation of POST: its position and its locals.
Current ==
    [pc |-> pc, body |-> body, location |-> location, geo |-> geo,
     weather |-> weather, daily |-> daily, weatherData |-> weatherData,
     queryAnalysis |-> queryAnalysis, response |-> response,
     inflight |-> inflight, log |-> log, completions |-> completions,
     received |-> received, nResponses |-> nResponses, caught |-> caught]
Fresh ==
    [pc |-> "idle", body |-> None, location |-> None, geo |-> None,
     weather |-> None, daily |-> <<>>, weatherData |-> None,
     queryAnalysis |-> None, response |-> None, inflight |-> {},
     log |-> <<>>, completions |-> NoCompletions,
     received |-> NothingReceived, nResponses |-> 0, caught |-> None]

ConcurrentInit == Start /\ variant = "route" /\ parked = Some(Fresh)

\* The invocation `inv` is the one that runs from here on.
Resume(inv) ==
    /\ pc' = inv.pc
    /\ body' = inv.body
    /\ geo' = inv.geo
    /\ weather' = inv.weather
    /\ daily' = inv.daily
    /\ weatherData' = inv.weatherData
    /\ queryAnalysis' = inv.queryAnalysis
    /\ response' = inv.response
    /\ inflight' = inv.inflight
    /\ log' = inv.log
    /\ completions' = inv.completions
    /\ received' = inv.received
    /\ nResponses' = inv.nResponses
    /\ caught' = inv.caught

\* Mutant: `location` is a variable of the module, not of the invocation.
SwitchSharedLocation ==
    /\ IsSome(parked)
    /\ pc \notin {"load", "crashed"}
    /\ parked' = Some(Current)
    /\ Resume(Val(parked))
    /\ UNCHANGED <<variant, env, turn, counts, aside, location>>

\* The event loop turns to the other invocation: at an await of the one,
\* the continuation of the other runs next.
Switch ==
    /\ IsSome(parked)
    /\ pc \notin {"load", "crashed"}
    /\ parked' = Some(Current)
    /\ Resume(Val(parked))
    /\ location' = Val(parked).location
    /\ UNCHANGED <<variant, env, turn, counts, aside>>

ConcurrentNext ==
    \/ ModuleLoad
    \/ POST
    \/ LocationReturn
    \/ GeocodeReturn
    \/ WeatherReturn
    \/ ForecastReturn
    \/ TimezoneReturn
    \/ QueryTypeReturn
    \/ SynthReturn
    \/ GenericReturn
    \/ Switch

ConcurrentSpec == ConcurrentInit /\ [][ConcurrentNext]_vars

\* POST as a function: from the body of the request and the answers to the
\* invocation's own calls to the response.
handleTurn(key, b, cs, rs) ==
    IF bodyThrows(b) THEN ErrorResponse
    ELSE LET loc == parseLocationFromMessage(Val(cs.location))
         IN  IF isWeatherQuery(loc)
             THEN IF \/ ~key
                     \/ geocodeThrows(Val(rs.geocode))
                     \/ fetchThrows(Val(rs.weather))
                     \/ fetchThrows(Val(rs.forecast))
                     \/ ~Val(rs.synth).ok
                  THEN ApologyResponse(Val(loc))
                  ELSE LET wd == Val(getWeatherData(key, Val(rs.geocode),
                                        Val(rs.weather), Val(rs.forecast),
                                        Val(rs.timezone)))
                       IN  WeatherResponse(Val(rs.synth), wd,
                                           getWeatherEmoji(wd.description))
             ELSE LET c == Val(rs.generic)
                  IN  IF c.ok /\ IsSome(c.message)
                      THEN GenericResponse(Val(c.message))
                      ELSE ErrorResponse

\* ----------------------------------------- forecast normalisation alone
\* Everything of the chat route, of getWeatherData on its own and of the
\* theme.
main == <<route, gwInput, gwResults, theme>>

\* Provider lists: the chronological feeds, and lists of up to three samples
\* in any order of their timestamps.
Stamps == {86400, 97200, 172800, 259200}
NormFeeds ==
    Feeds \cup {[i \in DOMAIN ts |-> Sample(ts[i], i)] :
                    ts \in UNION {[1..n -> Stamps] : n \in 1..3}}
DaysArguments == {None, Some(0), Some(1), Some(3), Some(7)}

\* simulateMCPToolCall: args.days || 7
daysOrDefault(d) == IF IsSome(d) /\ Val(d) # 0 THEN Val(d) ELSE 7

\* The reduce and slice of getWeatherForecastDirect.
getWeatherForecastDirect(list, n) == Slice(reduceForecast(<<>>, list), n)

ForecastingInit ==
    /\ RouteIdle
    /\ GatewayIdle
    /\ ThemeIdle
    /\ Elsewhere("forecasting")
    /\ feed \in NormFeeds
    /\ days \in DaysArguments
    /\ routeForecast = None
    /\ clientForecast = None

\* getWeatherData, lines 165-181, on the list.
RouteNormalize ==
    /\ routeForecast = None
    /\ routeForecast' = Some(processForecast(feed))
    /\ UNCHANGED <<main, feed, days, clientForecast>>
    /\ Rest("forecasting")

\* get_weather_forecast of the client on the list.
ClientNormalize ==
    /\ clientForecast = None
    /\ clientForecast' =
           Some(getWeatherForecastDirect(feed, daysOrDefault(days)))
    /\ UNCHANGED <<main, feed, days, routeForecast>>
    /\ Rest("forecasting")

ForecastingNext == RouteNormalize \/ ClientNormalize
ForecastingSpec == ForecastingInit /\ [][ForecastingNext]_vars

\* ------------------------------------- sunrise and sunset on their own
\* What the provider reports: sys.sunrise, sys.sunset (seconds since the
\* epoch) and timezone (the place's offset from UTC in seconds).
SunAnswers ==
    {[sunrise |-> r, sunset |-> r + 41400, timezone |-> z] :
        r \in {105000, 129540}, z \in {0, 3600, 19800, 32400, -18000}}
\* The time zone the machine runs in.
HostOffsets == {0, 3600, 32400, -18000}

\* Date.prototype.toLocaleTimeString('en-US', {hour: '2-digit', minute:
\* '2-digit', hour12: true}) without timeZone: the clock of the machine's
\* time zone.
toLocaleTimeString(seconds, offset) ==
    LET ms == ((seconds + offset) * 1000) % 86400000
        hour24 == ms \div 3600000
    IN  [hour |-> IF hour24 % 12 = 0 THEN 12 ELSE hour24 % 12,
         minute |-> (ms % 3600000) \div 60000,
         period |-> IF hour24 < 12 THEN "AM" ELSE "PM"]

ClockInit ==
    /\ RouteIdle
    /\ GatewayIdle
    /\ ThemeIdle
    /\ Elsewhere("clock")
    /\ sun \in {Some(a) : a \in SunAnswers}
    /\ hostOffset \in HostOffsets
    /\ chatTimes = None
    /\ weatherTimes = None
    /\ clientTimes = None

\* getWeatherData of the chat route, lines 184-203.
ChatRouteFormat ==
    /\ chatTimes = None
    /\ \E tz \in TimezoneCompletions :
        LET zone == getTimezoneFromCoordinates(tz)
        IN  chatTimes' =
                Some([sunrise |-> formatTime(Val(sun).sunrise
                                             + Val(sun).timezone, zone),
                      sunset |-> formatTime(Val(sun).sunset
                                            + Val(sun).timezone, zone)])
    /\ UNCHANGED <<main, sun, hostOffset, weatherTimes, clientTimes>>
    /\ Rest("clock")

\* GET of the weather route, lines 105-115.
WeatherRouteFormat ==
    /\ weatherTimes = None
    /\ weatherTimes' =
           Some([sunrise |-> toLocaleTimeString(Val(sun).sunrise, hostOffset),
                 sunset |-> toLocaleTimeString(Val(sun).sunset, hostOffset)])
    /\ UNCHANGED <<main, sun, hostOffset, chatTimes, clientTimes>>
    /\ Rest("clock")

\* getCurrentWeatherDirect of the client, lines 93-103.
ClientFormat ==
    /\ clientTimes = None
    /\ clientTimes' =
           Some([sunrise |-> toLocaleTimeString(Val(sun).sunrise, hostOffset),
                 sunset |-> toLocaleTimeString(Val(sun).sunset, hostOffset)])
    /\ UNCHANGED <<main, sun, hostOffset, chatTimes, weatherTimes>>
    /\ Rest("clock")

ClockNext == ChatRouteFormat \/ WeatherRouteFormat \/ ClientFormat
ClockSpec == ClockInit /\ [][ClockNext]_vars

\* ------------------------------------------------- chatService.addMessage
\* JavaScript values as far as addMessage tells them apart.
Undefined == [t |-> "undefined", n |-> 0, s |-> <<>>]
Num(n) == [t |-> "number", n |-> n, s |-> <<>>]
Str(s) == [t |-> "string", n |-> 0, s |-> s]
JsTruthy(v) ==
    \/ v.t = "number" /\ v.n # 0
    \/ v.t = "string" /\ v.s # <<>>
TypeofNumber(v) == v.t = "number"

SevenAM == <<"0","7",":","0","0"," ","A","M">>
SixPM == <<"0","6",":","0","0"," ","P","M">>
OkText == <<"o","k">>
HiText == <<"h","i">>

\* weatherData as the chat endpoint sends it.
FullPayload ==
    [coordinates |-> Some([lat |-> Num(49), lon |-> Num(2)]),
     city |-> Str(ParisStr), temperature |-> Num(18), feels_like |-> Num(17),
     description |-> Str(ClearSky), humidity |-> Num(60),
     wind_speed |-> Num(4), sunrise |-> Str(SevenAM), sunset |-> Str(SixPM),
     forecast |-> Some(processForecast(FeedOf(86400, 86400, 3)))]
ZeroPayload ==
    [FullPayload EXCEPT !.coordinates = Some([lat |-> Num(0), lon |-> Num(0)]),
                        !.temperature = Num(0), !.feels_like = Num(0),
                        !.humidity = Num(0), !.wind_speed = Num(0)]
NamelessPayload == [FullPayload EXCEPT !.city = Str(<<>>)]
Payloads ==
    {FullPayload, ZeroPayload, NamelessPayload,
     [FullPayload EXCEPT !.forecast = None],
     [FullPayload EXCEPT !.coordinates = None],
     [FullPayload EXCEPT !.coordinates =
                             Some([lat |-> Undefined, lon |-> Num(2)])],
     [FullPayload EXCEPT !.coordinates =
                             Some([lat |-> Num(49), lon |-> Str(<<"2">>)])],
     [FullPayload EXCEPT !.city = Undefined],
     [FullPayload EXCEPT !.temperature = Undefined],
     [FullPayload EXCEPT !.temperature = Str(<<"1","8">>)],
     [FullPayload EXCEPT !.feels_like = Undefined],
     [FullPayload EXCEPT !.description = Undefined],
     [FullPayload EXCEPT !.humidity = Undefined],
     [FullPayload EXCEPT !.wind_speed = Undefined],
     [FullPayload EXCEPT !.sunrise = Undefined],
     [FullPayload EXCEPT !.sunset = Str(<<>>)]}

\* A Message: role ("" when absent), content, timestamp (absent or a
\* number) and weatherData (absent or a payload).
Message(role, content, timestamp, wd) ==
    [role |-> role, content |-> content, timestamp |-> timestamp,
     weatherData |-> wd]
GivenMessages ==
    {Message(r, c, t, None) :
        r \in {"assistant", ""}, c \in {<<>>, OkText},
        t \in {None, Some(0), Some(5)}}
    \cup {Message("assistant", OkText, Some(5), Some(p)) : p \in Payloads}

\* addMessage, line 64.
validationThrows(m) ==
    \/ m.role = ""
    \/ m.content = <<>>
    \/ ~IsSome(m.timestamp)
    \/ Val(m.timestamp) = 0

\* Mutant: the numbers are tested as city and description are, by their
\* truth value.
hasRequiredFieldsTruthy(wd) ==
    /\ IsSome(wd)
    /\ IsSome(Val(wd).coordinates)
    /\ JsTruthy(Val(Val(wd).coordinates).lat)
    /\ JsTruthy(Val(Val(wd).coordinates).lon)
    /\ JsTruthy(Val(wd).city)
    /\ JsTruthy(Val(wd).temperature)
    /\ JsTruthy(Val(wd).feels_like)
    /\ JsTruthy(Val(wd).description)
    /\ JsTruthy(Val(wd).humidity)
    /\ JsTruthy(Val(wd).wind_speed)
    /\ JsTruthy(Val(wd).sunrise)
    /\ JsTruthy(Val(wd).sunset)

\* addMessage, lines 76-87.
hasRequiredFields(wd) ==
    /\ IsSome(wd)
    /\ IsSome(Val(wd).coordinates)
    /\ TypeofNumber(Val(Val(wd).coordinates).lat)
    /\ TypeofNumber(Val(Val(wd).coordinates).lon)
    /\ JsTruthy(Val(wd).city)
    /\ TypeofNumber(Val(wd).temperature)
    /\ TypeofNumber(Val(wd).feels_like)
    /\ JsTruthy(Val(wd).description)
    /\ TypeofNumber(Val(wd).humidity)
    /\ TypeofNumber(Val(wd).wind_speed)
    /\ JsTruthy(Val(wd).sunrise)
    /\ JsTruthy(Val(wd).sunset)

\* addMessage, lines 69-99: the fields that are copied.
cleanMessage(m) ==
    Message(m.role, m.content, m.timestamp,
            IF hasRequiredFields(m.weatherData)
            THEN Some([coordinates |-> Val(m.weatherData).coordinates,
                       city |-> Val(m.weatherData).city,
                       temperature |-> Val(m.weatherData).temperature,
                       feels_like |-> Val(m.weatherData).feels_like,
                       description |-> Val(m.weatherData).description,
                       humidity |-> Val(m.weatherData).humidity,
                       wind_speed |-> Val(m.weatherData).wind_speed,
                       sunrise |-> Val(m.weatherData).sunrise,
                       sunset |-> Val(m.weatherData).sunset,
                       forecast |-> None])
            ELSE None)

\* Firestore's arrayUnion: the element is added unless an equal one is in
\* the array.
arrayUnion(list, x) ==
    IF \E i \in 1..Len(list) : list[i] = x THEN list ELSE Append(list, x)

\* updateDoc(chatRef, {messages: arrayUnion(cleanMessage), ...}) resolved.
updateDoc(c, m) ==
    chats' = [chats EXCEPT ![c] = Some(arrayUnion(Val(chats[c]), m))]

\* The chat of an earlier visit.
EarlierChat ==
    <<Message("user", HiText, Some(1), None),
      Message("assistant", OkText, Some(2), None)>>

StoreInit ==
    /\ RouteIdle
    /\ GatewayIdle
    /\ ThemeIdle
    /\ Elsewhere("session")
    /\ chats = [c \in ChatIds |-> IF c = 1 THEN Some(EarlierChat) ELSE None]
    /\ lastCall = None
    /\ currentChatId = None
    /\ messages = <<>>
    /\ isLoading = FALSE
    /\ selectedWeatherData = None
    /\ isMapOpen = FALSE
    /\ showForecast = FALSE
    /\ synced = TRUE
    /\ submits = <<>>
    /\ deleteModal = None
    /\ deleting = None
    /\ deletions = 0

ui == <<currentChatId, messages, isLoading, selectedWeatherData, isMapOpen,
        showForecast, synced, submits, deleteModal, deleting, deletions>>

\* One call of addMessage, up to its return or throw. updateDoc rejects
\* when the document does not exist or the write does not get through.
addMessage ==
    /\ IF IsSome(lastCall) THEN Val(lastCall).n < MaxCalls ELSE TRUE
    /\ \E c \in {1, 2}, m \in GivenMessages, through \in BOOLEAN :
        LET n == IF IsSome(lastCall) THEN Val(lastCall).n + 1 ELSE 1
            call(end) == Some([n |-> n, chatId |-> c, message |-> m,
                               end |-> end])
        IN  IF validationThrows(m)
            THEN /\ lastCall' = call("invalid")
                 /\ UNCHANGED chats
            ELSE IF ~IsSome(chats[c]) \/ ~through
            THEN /\ lastCall' = call("rejected")
                 /\ UNCHANGED chats
            ELSE /\ lastCall' = call("resolved")
                 /\ updateDoc(c, cleanMessage(m))
    /\ UNCHANGED <<main, ui>>
    /\ Rest("session")

StoreSpec == StoreInit /\ [][addMessage]_vars

\* --------------------------------------------------------- the chat UI
\* What the user types or clicks.
ForecastInput == <<" ">> \o ForecastStr
SubmitInputs == {HiText, ForecastInput}
SampleQuestion ==
    <<"W","h","a","t","'","s"," ","t","h","e"," ","f","o","r","e","c","a",
      "s","t"," ","f","o","r"," ","L","o","n","d","o","n","?">>
SorryText ==
    <<"S","o","r","r","y",","," ","I"," ","e","n","c","o","u","n","t","e",
      "r","e","d"," ","a","n"," ","e","r","r","o","r",".">>
RetryText ==
    <<"S","o","r","r","y",","," ","I"," ","e","n","c","o","u","n","t","e",
      "r","e","d"," ","a","n"," ","e","r","r","o","r"," ","w","h","i","l",
      "e"," ","p","r","o","c","e","s","s","i","n","g"," ","y","o","u","r",
      " ","r","e","q","u","e","s","t","."," ","P","l","e","a","s","e"," ",
      "t","r","y"," ","a","g","a","i","n",".">>
forecastKeywords ==
    {ForecastStr,
     <<"t","o","m","o","r","r","o","w">>,
     <<"n","e","x","t"," ","w","e","e","k">>,
     <<"w","i","l","l"," ","i","t"," ","r","a","i","n">>,
     <<"g","o","i","n","g"," ","t","o">>,
     <<"n","e","x","t"," ","f","e","w"," ","d","a","y","s">>,
     <<"w","e","e","k"," ","a","h","e","a","d">>,
     <<"u","p","c","o","m","i","n","g"," ","w","e","a","t","h","e","r">>}
isForecastQuery(content) ==
    \E keyword \in forecastKeywords : Includes(ToLowerCase(content), keyword)

\* What fetch('/api/chat') and response.json() give: a rejection, a status
\* that is not OK, or the endpoint's JSON.
Reply(thrown, ok, content, wd) ==
    [thrown |-> thrown, ok |-> ok, content |-> content, weatherData |-> wd]
Replies ==
    {Reply(TRUE, FALSE, <<>>, None),
     Reply(FALSE, FALSE, <<>>, None),
     Reply(FALSE, TRUE, <<>>, None),
     Reply(FALSE, TRUE, OkText, None),
     Reply(FALSE, TRUE, OkText, Some(FullPayload)),
     Reply(FALSE, TRUE, OkText, Some(NamelessPayload))}

\* Date.now() of the k-th reading of the clock in the h-th turn: a value
\* no other reading gives.
Stamp(h, k) == 10 * h + k

\* messages.map(msg => ({role: msg.role, content: msg.content}))
RoleContent(list) ==
    [i \in 1..Len(list) |->
        [role |-> list[i].role, content |-> list[i].content]]

errorMessage(h) == Message("assistant", RetryText, Some(Stamp(h, 4)), None)

\* The chat UI open, the user signed in, one chat of an earlier visit
\* stored.
SessionInit ==
    /\ RouteIdle
    /\ GatewayIdle
    /\ ThemeIdle
    /\ Elsewhere("session")
    /\ chats = [c \in ChatIds |-> IF c = 1 THEN Some(EarlierChat) ELSE None]
    /\ lastCall = None
    /\ currentChatId = None
    /\ messages = <<>>
    /\ isLoading = FALSE
    /\ selectedWeatherData = None
    /\ isMapOpen = FALSE
    /\ showForecast = FALSE
    /\ synced = TRUE
    /\ submits = <<>>
    /\ deleteModal = None
    /\ deleting = None
    /\ deletions = 0

\* A write to the chat `c` reaches the listener when `c` is the one it
\* listens to.
Touch(c) == synced' = IF currentChatId = Some(c) THEN FALSE ELSE synced

\* handleSubmit up to its first await (lines 146-162), or the onClick of a
\* sample question (282-297). The submit button is enabled while isLoading
\* is false and the input has text; the sample questions are shown while
\* there are no messages and enabled while isLoading is false.
Submit(inputs, most) ==
    /\ deleteModal = None
    /\ Len(submits) < most
    /\ ~isLoading
    /\ \E raw \in inputs \cup {SampleQuestion} :
        /\ raw = SampleQuestion => Len(messages) = 0
        /\ LET h == Len(submits) + 1
               kind == IF raw = SampleQuestion THEN "sample" ELSE "submit"
           IN  submits' = Append(submits,
                   [kind |-> kind,
                    pc |-> IF IsSome(currentChatId) THEN "awaitAddUser"
                           ELSE "awaitCreate",
                    chatId |-> currentChatId,
                    raw |-> raw,
                    userMessage |-> Message("user", Trim(raw),
                                            Some(Stamp(h, 1)), None),
                    history |-> messages,
                    before |-> None,
                    rejected |-> {},
                    sent |-> None,
                    reply |-> None,
                    pending |-> None])
    /\ UNCHANGED <<main, chats, lastCall, currentChatId, messages, isLoading,
                   selectedWeatherData, isMapOpen, showForecast, synced,
                   deleteModal, deleting, deletions>>
    /\ Rest("session")

\* The body of the request of the turn `t`, lines 173-178.
Body(t) == RoleContent(Append(t.history, t.userMessage))

\* createChat resolves or rejects (lines 158-159, then 164-168).
CreateReturn(outcomes) ==
    /\ \E h \in 1..Len(submits), through \in outcomes :
        LET t == submits[h]
            id == h + 1
            first == Message("user", t.raw, Some(Stamp(h, 2)), None)
        IN  /\ t.pc = "awaitCreate"
            /\ IF through
               THEN /\ chats' = [chats EXCEPT ![id] = Some(<<first>>)]
                    /\ currentChatId' = Some(id)
                    /\ synced' = FALSE
                    /\ isLoading' = TRUE
                    /\ submits' = [submits EXCEPT ![h] =
                           [t EXCEPT !.pc = "awaitFetch",
                                     !.chatId = Some(id),
                                     !.before = Some(<<>>),
                                     !.sent = Some(Body(t))]]
               ELSE /\ submits' = [submits EXCEPT ![h] =
                           [t EXCEPT !.pc = "failed", !.rejected = {"user"}]]
                    /\ UNCHANGED <<chats, currentChatId, synced, isLoading>>
    /\ UNCHANGED <<main, lastCall, messages, selectedWeatherData, isMapOpen,
                   showForecast, deleteModal, deleting, deletions>>
    /\ Rest("session")

\* addMessage(chatId, userMessage) resolves or rejects (line 161, then
\* 164-168).
AddUserReturn(outcomes) ==
    /\ \E h \in 1..Len(submits), through \in outcomes :
        LET t == submits[h]
            c == Val(t.chatId)
            m == cleanMessage(t.userMessage)
        IN  /\ t.pc = "awaitAddUser"
            /\ IF through /\ IsSome(chats[c])
               THEN /\ updateDoc(c, m)
                    /\ Touch(c)
                    /\ isLoading' = TRUE
                    /\ submits' = [submits EXCEPT ![h] =
                           [t EXCEPT !.pc = "awaitFetch",
                                     !.before = chats[c],
                                     !.sent = Some(Body(t))]]
               ELSE /\ submits' = [submits EXCEPT ![h] =
                           [t EXCEPT !.pc = "failed", !.rejected = {"user"}]]
                    /\ UNCHANGED <<chats, synced, isLoading>>
    /\ UNCHANGED <<main, lastCall, currentChatId, messages,
                   selectedWeatherData, isMapOpen, showForecast, deleteModal,
                   deleting, deletions>>
    /\ Rest("session")

\* Mutant: the status of the response is not looked at.
FetchReturnIgnoresStatus(replies) ==
    /\ \E h \in 1..Len(submits), reply \in replies :
        LET t == submits[h]
            assistantMessage ==
                Message("assistant",
                        IF reply.content # <<>> THEN reply.content
                        ELSE SorryText,
                        Some(Stamp(h, 3)), reply.weatherData)
        IN  /\ t.pc = "awaitFetch"
            /\ submits' = [submits EXCEPT ![h] =
                   IF reply.thrown
                   THEN [t EXCEPT !.pc = "awaitAddError",
                                  !.reply = Some(reply),
                                  !.pending = Some(errorMessage(h))]
                   ELSE [t EXCEPT !.pc = "awaitAddAssistant",
                                  !.reply = Some(reply),
                                  !.pending = Some(assistantMessage)]]
    /\ UNCHANGED <<main, chats, lastCall, currentChatId, messages, isLoading,
                   selectedWeatherData, isMapOpen, showForecast, synced,
                   deleteModal, deleting, deletions>>
    /\ Rest("session")

\* fetch and response.json() settle (lines 168-193, 194-201): the handler
\* goes on to store the assistant message or the error message.
FetchReturn(replies) ==
    /\ \E h \in 1..Len(submits), reply \in replies :
        LET t == submits[h]
            assistantMessage ==
                Message("assistant",
                        IF reply.content # <<>> THEN reply.content
                        ELSE SorryText,
                        Some(Stamp(h, 3)), reply.weatherData)
        IN  /\ t.pc = "awaitFetch"
            /\ submits' = [submits EXCEPT ![h] =
                   IF reply.thrown \/ ~reply.ok
                   THEN [t EXCEPT !.pc = "awaitAddError",
                                  !.reply = Some(reply),
                                  !.pending = Some(errorMessage(h))]
                   ELSE [t EXCEPT !.pc = "awaitAddAssistant",
                                  !.reply = Some(reply),
                                  !.pending = Some(assistantMessage)]]
    /\ UNCHANGED <<main, chats, lastCall, currentChatId, messages, isLoading,
                   selectedWeatherData, isMapOpen, showForecast, synced,
                   deleteModal, deleting, deletions>>
    /\ Rest("session")

\* addMessage(chatId, assistantMessage) resolves (then finally, line 203)
\* or rejects (then catch, lines 194-201).
AddAssistantReturn(outcomes) ==
    /\ \E h \in 1..Len(submits), through \in outcomes :
        LET t == submits[h]
            c == Val(t.chatId)
            m == cleanMessage(Val(t.pending))
        IN  /\ t.pc = "awaitAddAssistant"
            /\ IF through /\ IsSome(chats[c])
               THEN /\ updateDoc(c, m)
                    /\ Touch(c)
                    /\ isLoading' = FALSE
                    /\ submits' = [submits EXCEPT ![h] =
                           [t EXCEPT !.pc = "done",
                                     !.pending = None]]
               ELSE /\ submits' = [submits EXCEPT ![h] =
                           [t EXCEPT !.pc = "awaitAddError",
                                     !.rejected = {"assistant"},
                                     !.pending = Some(errorMessage(h))]]
                    /\ UNCHANGED <<chats, synced, isLoading>>
    /\ UNCHANGED <<main, lastCall, currentChatId, messages,
                   selectedWeatherData, isMapOpen, showForecast, deleteModal,
                   deleting, deletions>>
    /\ Rest("session")

\* addMessage(chatId, errorMessage) resolves or rejects; finally (line 203)
\* runs in both cases.
AddErrorReturn(outcomes) ==
    /\ \E h \in 1..Len(submits), through \in outcomes :
        LET t == submits[h]
            c == Val(t.chatId)
            m == cleanMessage(Val(t.pending))
        IN  /\ t.pc = "awaitAddError"
            /\ isLoading' = FALSE
            /\ IF through /\ IsSome(chats[c])
               THEN /\ updateDoc(c, m)
                    /\ Touch(c)
                    /\ submits' = [submits EXCEPT ![h] =
                           [t EXCEPT !.pc = "done",
                                     !.pending = None]]
               ELSE /\ submits' = [submits EXCEPT ![h] =
                           [t EXCEPT !.pc = "failed",
                                     !.rejected = @ \cup {"error"},
                                     !.pending = None]]
                    /\ UNCHANGED <<chats, synced>>
    /\ UNCHANGED <<main, lastCall, currentChatId, messages,
                   selectedWeatherData, isMapOpen, showForecast, deleteModal,
                   deleting, deletions>>
    /\ Rest("session")

\* The test of the listener, lines 104-113.
showsWeather(m) ==
    /\ IsSome(m.weatherData)
    /\ IsSome(Val(m.weatherData).coordinates)
    /\ JsTruthy(Val(m.weatherData).city)
    /\ TypeofNumber(Val(m.weatherData).temperature)
    /\ TypeofNumber(Val(m.weatherData).feels_like)
    /\ JsTruthy(Val(m.weatherData).description)
    /\ TypeofNumber(Val(m.weatherData).humidity)
    /\ TypeofNumber(Val(m.weatherData).wind_speed)
    /\ JsTruthy(Val(m.weatherData).sunrise)
    /\ JsTruthy(Val(m.weatherData).sunset)

\* The onSnapshot callback (lines 95-129) with the document of the chat
\* listened to, as it is now.
Snapshot ==
    /\ IsSome(currentChatId)
    /\ ~synced
    /\ synced' = TRUE
    /\ LET chatData == chats[Val(currentChatId)]
       IN  IF IsSome(chatData)
           THEN LET list == Val(chatData)
                    lastMessage == list[Len(list)]
                IN  /\ messages' = list
                    /\ IF showsWeather(lastMessage)
                       THEN /\ selectedWeatherData' = lastMessage.weatherData
                            /\ showForecast' =
                                 IF /\ Len(list) > 1
                                    /\ list[Len(list) - 1].role = "user"
                                    /\ list[Len(list) - 1].content # <<>>
                                 THEN isForecastQuery(
                                          list[Len(list) - 1].content)
                                 ELSE showForecast
                            /\ UNCHANGED isMapOpen
                       ELSE /\ selectedWeatherData' = None
                            /\ isMapOpen' = FALSE
                            /\ showForecast' = FALSE
           ELSE UNCHANGED <<messages, selectedWeatherData, isMapOpen,
                            showForecast>>
    /\ UNCHANGED <<main, chats, lastCall, currentChatId, isLoading, submits,
                   deleteModal, deleting, deletions>>
    /\ Rest("session")

\* handleSelectChat('new'), lines 135-141.
selectNew ==
    /\ currentChatId' = None
    /\ messages' = <<>>
    /\ selectedWeatherData' = None
    /\ isMapOpen' = FALSE
    /\ synced' = TRUE

\* A chat of the history is clicked: handleSelectChat(chatId), line 143;
\* the effect of lines 87-132 subscribes to it.
SelectChat ==
    /\ deleteModal = None
    /\ \E c \in ChatIds :
        /\ IsSome(chats[c])
        /\ currentChatId # Some(c)
        /\ currentChatId' = Some(c)
    /\ synced' = FALSE
    /\ UNCHANGED <<main, chats, lastCall, messages, isLoading,
                   selectedWeatherData, isMapOpen, showForecast, submits,
                   deleteModal, deleting, deletions>>
    /\ Rest("session")

\* 'New chat' is clicked.
NewChat ==
    /\ deleteModal = None
    /\ IsSome(currentChatId)
    /\ selectNew
    /\ UNCHANGED <<main, chats, lastCall, isLoading, showForecast, submits,
                   deleteModal, deleting, deletions>>
    /\ Rest("session")

\* handleViewMap, lines 207-210, for a message shown with its weather card.
handleViewMap ==
    /\ deleteModal = None
    /\ ~isMapOpen
    /\ \E i \in 1..Len(messages) :
        /\ IsSome(messages[i].weatherData)
        /\ selectedWeatherData' = messages[i].weatherData
    /\ isMapOpen' = TRUE
    /\ UNCHANGED <<main, chats, lastCall, currentChatId, messages, isLoading,
                   showForecast, synced, submits, deleteModal, deleting,
                   deletions>>
    /\ Rest("session")

\* handleDeleteChat of the history (lines 128-135) opens Dashboard's modal.
handleDeleteChat ==
    /\ deleteModal = None
    /\ deleting = None
    /\ deletions < MaxDeletions
    /\ \E c \in ChatIds :
        /\ IsSome(chats[c])
        /\ deleteModal' = Some(c)
    /\ UNCHANGED <<main, chats, lastCall, currentChatId, messages, isLoading,
                   selectedWeatherData, isMapOpen, showForecast, synced,
                   submits, deleting, deletions>>
    /\ Rest("session")

closeDeleteModal ==
    /\ IsSome(deleteModal)
    /\ deleteModal' = None
    /\ UNCHANGED <<main, chats, lastCall, currentChatId, messages, isLoading,
                   selectedWeatherData, isMapOpen, showForecast, synced,
                   submits, deleting, deletions>>
    /\ Rest("session")

\* 'Delete Chat' of the modal (page.tsx 117-125): handleConfirmDelete runs
\* up to its await of deleteChat, with the currentChatId of its closure.
handleConfirmDelete ==
    /\ IsSome(deleteModal)
    /\ deleting' = Some([chatId |-> Val(deleteModal),
                         currentChatId |-> currentChatId])
    /\ deleteModal' = None
    /\ deletions' = deletions + 1
    /\ UNCHANGED <<main, chats, lastCall, currentChatId, messages, isLoading,
                   selectedWeatherData, isMapOpen, showForecast, synced,
                   submits>>
    /\ Rest("session")

\* deleteChat resolves or rejects (ChatHistory.tsx 63-70).
DeleteReturn ==
    /\ IsSome(deleting)
    /\ deleting' = None
    /\ \E through \in BOOLEAN :
        LET c == Val(deleting).chatId
        IN  IF through
            THEN /\ chats' = [chats EXCEPT ![c] = None]
                 /\ IF Val(deleting).currentChatId = Some(c)
                    THEN selectNew
                    ELSE /\ Touch(c)
                         /\ UNCHANGED <<currentChatId, messages,
                                        selectedWeatherData, isMapOpen>>
            ELSE UNCHANGED <<chats, currentChatId, messages,
                             selectedWeatherData, isMapOpen, synced>>
    /\ UNCHANGED <<main, lastCall, isLoading, showForecast, submits,
                   deleteModal, deletions>>
    /\ Rest("session")

\* The turns of one conversation: the chat open at the start is a new one
\* or the stored one, already delivered by the listener.
TurnInit ==
    /\ RouteIdle
    /\ GatewayIdle
    /\ ThemeIdle
    /\ Elsewhere("session")
    /\ chats = [c \in ChatIds |-> IF c = 1 THEN Some(EarlierChat) ELSE None]
    /\ lastCall = None
    /\ \/ currentChatId = None /\ messages = <<>>
       \/ currentChatId = Some(1) /\ messages = EarlierChat
    /\ isLoading = FALSE
    /\ selectedWeatherData = None
    /\ isMapOpen = FALSE
    /\ showForecast = FALSE
    /\ synced = TRUE
    /\ submits = <<>>
    /\ deleteModal = None
    /\ deleting = None
    /\ deletions = 0

TurnNext ==
    \/ Submit(SubmitInputs, MaxSubmits)
    \/ CreateReturn(BOOLEAN)
    \/ AddUserReturn(BOOLEAN)
    \/ FetchReturn(Replies)
    \/ AddAssistantReturn(BOOLEAN)
    \/ AddErrorReturn(BOOLEAN)
    \/ Snapshot

TurnSpec == TurnInit /\ [][TurnNext]_vars

\* The whole session, with the history and the deletion of chats; the
\* store answers, and the endpoint gives one of two replies.
FewReplies ==
    {Reply(TRUE, FALSE, <<>>, None),
     Reply(FALSE, TRUE, OkText, Some(FullPayload))}

SessionNext ==
    \/ Submit({HiText}, MaxSessionSubmits)
    \/ CreateReturn({TRUE})
    \/ AddUserReturn({TRUE})
    \/ FetchReturn(FewReplies)
    \/ AddAssistantReturn({TRUE})
    \/ AddErrorReturn({TRUE})
    \/ Snapshot
    \/ SelectChat
    \/ NewChat
    \/ handleViewMap
    \/ handleDeleteChat
    \/ closeDeleteModal
    \/ handleConfirmDelete
    \/ DeleteReturn

SessionSpec == SessionInit /\ [][SessionNext]_vars

\* ------------------------------------------------------ the MCP server
ToolNames == {"get_current_weather", "get_weather_forecast",
              "search_locations"}
\* request.params.arguments, with the properties a tool reads.
ToolArguments ==
    [location : {Undefined, Num(5), Str(<<>>), Str(ParisStr)},
     days : {Undefined, Num(0), Num(1), Num(7), Num(8), Str(<<"3">>)},
     query : {Undefined, Str(ParisStr)},
     limit : {Undefined, Num(0), Num(10), Num(11)}]
\* What the provider does for the requests of one call.
ProviderOutcomes == {"ok", "geoFails", "notFound", "weatherFails"}

Outcome(code, requests) == [code |-> code, requests |-> requests]

\* fetchWeatherData (lines 224-323): whether it throws, and the requests
\* made before.
fetchWeatherData(key, provider) ==
    IF ~key THEN [thrown |-> TRUE, requests |-> 0]
    ELSE IF provider \in {"geoFails", "notFound"}
    THEN [thrown |-> TRUE, requests |-> 1]
    ELSE [thrown |-> provider = "weatherFails", requests |-> 2]

\* searchLocations (lines 325-351): an empty answer is a result.
searchLocations(key, provider) ==
    IF ~key THEN [thrown |-> TRUE, requests |-> 0]
    ELSE [thrown |-> provider = "geoFails", requests |-> 1]

Fetched(f) == Outcome(IF f.thrown THEN "InternalError" ELSE "none", f.requests)

handleGetCurrentWeather(args, key, provider) ==
    IF ~JsTruthy(args.location) \/ args.location.t # "string"
    THEN Outcome("InvalidParams", 0)
    ELSE Fetched(fetchWeatherData(key, provider))

handleGetWeatherForecast(args, key, provider) ==
    LET d == IF args.days = Undefined THEN Num(7) ELSE args.days
    IN  IF ~JsTruthy(args.location) \/ args.location.t # "string"
        THEN Outcome("InvalidParams", 0)
        ELSE IF ~TypeofNumber(d) \/ d.n < 1 \/ d.n > 7
        THEN Outcome("InvalidParams", 0)
        ELSE Fetched(fetchWeatherData(key, provider))

handleSearchLocations(args, key, provider) ==
    LET l == IF args.limit = Undefined THEN Num(5) ELSE args.limit
    IN  IF ~JsTruthy(args.query) \/ args.query.t # "string"
        THEN Outcome("InvalidParams", 0)
        ELSE IF ~TypeofNumber(l) \/ l.n < 1 \/ l.n > 10
        THEN Outcome("InvalidParams", 0)
        ELSE Fetched(searchLocations(key, provider))

\* The handler of CallToolRequestSchema (lines 97-120): the switch is
\* inside the try, and the catch rethrows whatever was thrown as
\* InternalError.
CallToolRequestHandler(name, args, key, provider) ==
    LET thrown ==
            CASE name = "get_current_weather" ->
                     handleGetCurrentWeather(args, key, provider)
              [] name = "get_weather_forecast" ->
                     handleGetWeatherForecast(args, key, provider)
              [] name = "search_locations" ->
                     handleSearchLocations(args, key, provider)
              [] OTHER -> Outcome("MethodNotFound", 0)
    IN  IF thrown.code # "none"
        THEN Outcome("InternalError", thrown.requests)
        ELSE thrown

McpInit ==
    /\ RouteIdle
    /\ GatewayIdle
    /\ ThemeIdle
    /\ Elsewhere("mcp")
    /\ toolRequest = None
    /\ toolResult = None
    /\ toolCalls = 0

CallTool ==
    /\ toolCalls < MaxToolCalls
    /\ \E name \in ToolNames \cup {"get_air_quality"}, args \in ToolArguments,
          key \in BOOLEAN, provider \in ProviderOutcomes :
        /\ toolRequest' = Some([name |-> name, args |-> args, key |-> key,
                                provider |-> provider])
        /\ toolResult' = Some(CallToolRequestHandler(name, args, key, provider))
    /\ toolCalls' = toolCalls + 1
    /\ UNCHANGED main
    /\ Rest("mcp")

McpSpec == McpInit /\ [][CallTool]_vars

\* ------------------------------------------------- the WeatherMCPClient
\* The messages of the errors the client throws, and the texts the
\* endpoint looks for in them.
NotConnectedMessage ==
    <<"M","C","P"," ","c","l","i","e","n","t"," ","n","o","t"," ","c","o",
      "n","n","e","c","t","e","d">>
KeyMessage ==
    <<"O","p","e","n","W","e","a","t","h","e","r"," ","A","P","I"," ","k",
      "e","y"," ","n","o","t"," ","c","o","n","f","i","g","u","r","e","d">>
UnknownToolMessage ==
    <<"U","n","k","n","o","w","n"," ","t","o","o","l",":"," ","g","e","t",
      "_","a","i","r","_","q","u","a","l","i","t","y">>
GeocodeMessage ==
    <<"F","a","i","l","e","d"," ","t","o"," ","g","e","o","c","o","d","e",
      " ","l","o","c","a","t","i","o","n"," ","\"","P","a","r","i","s",
      "\"">>
NotFoundMessage ==
    <<"L","o","c","a","t","i","o","n"," ","\"","P","a","r","i","s","\""," ",
      "n","o","t"," ","f","o","u","n","d">>
WeatherMessage ==
    <<"F","a","i","l","e","d"," ","t","o"," ","f","e","t","c","h"," ","c",
      "u","r","r","e","n","t"," ","w","e","a","t","h","e","r"," ","d","a",
      "t","a">>
ForecastMessage ==
    <<"F","a","i","l","e","d"," ","t","o"," ","f","e","t","c","h"," ","f",
      "o","r","e","c","a","s","t"," ","d","a","t","a">>
SearchMessage ==
    <<"F","a","i","l","e","d"," ","t","o"," ","s","e","a","r","c","h"," ",
      "l","o","c","a","t","i","o","n","s">>
NotFoundText ==
    <<"n","o","t"," ","f","o","u","n","d">>

\* simulateMCPToolCall (lines 39-55) with the direct call it makes: the
\* error thrown, if any, and the requests made to the provider.
simulateMCPToolCall(toolName, key, provider) ==
    LET Thrown(message, n) == [thrown |-> Some(message), requests |-> n]
        Returned(n) == [thrown |-> None, requests |-> n]
    IN  IF ~key THEN Thrown(KeyMessage, 0)
        ELSE CASE toolName \in {"get_current_weather",
                                "get_weather_forecast"} ->
                      CASE provider = "geoFails" -> Thrown(GeocodeMessage, 1)
                        [] provider = "notFound" -> Thrown(NotFoundMessage, 1)
                        [] provider = "weatherFails" ->
                               Thrown(IF toolName = "get_current_weather"
                                      THEN WeatherMessage
                                      ELSE ForecastMessage, 2)
                        [] OTHER -> Returned(2)
               [] toolName = "search_locations" ->
                      IF provider = "geoFails" THEN Thrown(SearchMessage, 1)
                      ELSE Returned(1)
               [] OTHER -> Thrown(UnknownToolMessage, 0)

\* callTool (lines 24-37) on a client whose _isConnected is `connected`.
callTool(connected, toolName, key, provider) ==
    IF ~connected
    THEN [thrown |-> Some(NotConnectedMessage), requests |-> 0]
    ELSE simulateMCPToolCall(toolName, key, provider)

\* The status GET answers with (part_003 lines 167-208).
GetStatus(city, connected, key, provider) ==
    IF city = None THEN 400
    ELSE LET got == callTool(connected, "get_current_weather", key, provider)
         IN  IF got.thrown = None THEN 200
             ELSE IF Includes(Val(got.thrown), NotFoundText) THEN 404
             ELSE 500

ClientInit ==
    /\ RouteIdle
    /\ GatewayIdle
    /\ ThemeIdle
    /\ Elsewhere("client")
    /\ isConnected = FALSE
    /\ clientResult = None
    /\ clientOps = 0

Op ==
    /\ clientOps < MaxOps
    /\ clientOps' = clientOps + 1
    /\ UNCHANGED main
    /\ Rest("client")

connect ==
    /\ Op
    /\ isConnected' = TRUE
    /\ clientResult' = Some([op |-> "connect", connected |-> isConnected,
                             toolName |-> "", city |-> None, key |-> TRUE,
                             provider |-> "ok", thrown |-> None,
                             requests |-> 0, status |-> 0])

disconnect ==
    /\ Op
    /\ isConnected' = FALSE
    /\ clientResult' = Some([op |-> "disconnect", connected |-> isConnected,
                             toolName |-> "", city |-> None, key |-> TRUE,
                             provider |-> "ok", thrown |-> None,
                             requests |-> 0, status |-> 0])

\* A call of getCurrentWeather, getWeatherForecast, searchLocations or
\* callTool (lines 24-37, 229-242).
ToolCall ==
    /\ Op
    /\ \E toolName \in ToolNames \cup {"get_air_quality"}, key \in BOOLEAN,
          provider \in ProviderOutcomes :
        LET got == callTool(isConnected, toolName, key, provider)
        IN  clientResult' = Some([op |-> "callTool",
                                  connected |-> isConnected,
                                  toolName |-> toolName, city |-> None,
                                  key |-> key, provider |-> provider,
                                  thrown |-> got.thrown,
                                  requests |-> got.requests, status |-> 0])
    /\ UNCHANGED isConnected

\* GET of the MCP-backed weather endpoint (part_003 lines 167-208), on the
\* singleton of weatherMCPClient.ts line 248.
GET ==
    /\ Op
    /\ \E city \in {None, Some(ParisStr)}, key \in BOOLEAN,
          provider \in ProviderOutcomes :
        LET got == IF city = None
                   THEN [thrown |-> None, requests |-> 0]
                   ELSE callTool(isConnected, "get_current_weather", key,
                                 provider)
        IN  clientResult' = Some([op |-> "GET", connected |-> isConnected,
                                  toolName |-> "get_current_weather",
                                  city |-> city, key |-> key,
                                  provider |-> provider,
                                  thrown |-> got.thrown,
                                  requests |-> got.requests,
                                  status |-> GetStatus(city, isConnected, key,
                                                       provider)])
    /\ UNCHANGED isConnected

ClientNext ==
    \/ connect
    \/ disconnect
    \/ ToolCall
    \/ GET

ClientSpec == ClientInit /\ [][ClientNext]_vars

\* Either version of the route is the one deployed.
VariantSpec == VariantInit /\ [][Next]_vars

\* Every external call eventually returns or fails, and the event loop runs
\* the continuation of an answered await.
FairSpec == Spec /\ WF_vars(Next)

\* ============================================================== claims
\* Readings of this turn's log and response.
Issued(call) == \E i \in 1..Len(log) : log[i] = <<"issue", call>>
Ok(call) == \E i \in 1..Len(log) : log[i] = <<"ok", call>>
Failed(call) == \E i \in 1..Len(log) : log[i] = <<"fail", call>>
Count(call) == Cardinality({i \in 1..Len(log) : log[i] = <<"issue", call>>})
IsIssue(e) == e[1] = "issue"
IssuedCalls == [i \in 1..Len(SelectSeq(log, IsIssue)) |->
                    SelectSeq(log, IsIssue)[i][2]]
IsPrefix(s, t) == Len(s) <= Len(t) /\ SubSeq(t, 1, Len(s)) = s
Outstanding == {c \in {log[i][2] : i \in 1..Len(log)} :
                    Issued(c) /\ ~Ok(c) /\ ~Failed(c)}
GatewayCalls == {"geocode", "weather", "forecast"}
ExternalCalls == {"llm_location", "geocode", "weather", "forecast",
                  "llm_timezone", "llm_querytype", "llm_synth", "llm_generic"}
Done == pc = "done"
HasPayload == IsSome(response) /\ IsSome(Val(response).weatherData)
GatewayFailed == \E c \in GatewayCalls : Failed(c)
Classified == IsSome(completions.location)
IsApology(r) ==
    /\ r.status = 200
    /\ ~r.error
    /\ r.role = "assistant"
    /\ r.content.tmpl = "apology"
    /\ r.weatherData = None
IsError(r) ==
    /\ r.status = 500
    /\ r.error
    /\ r.content.tmpl = "none"
    /\ r.weatherData = None

\* C1: the response carries weatherData only if the classifier produced a
\* location for this turn and the Gateway's requests (geocode, weather,
\* forecast) succeeded and getWeatherData returned its record; an error
\* response never carries it.
C1_PayloadOnlyAfterGateway ==
    HasPayload =>
        /\ isWeatherQuery(location)
        /\ Ok("geocode") /\ Ok("weather") /\ Ok("forecast")
        /\ IsSome(weatherData)
        /\ ~Val(response).error
C1_Witness == Done /\ HasPayload

\* C2: when the classification yields no location, no geocoding and no
\* provider request is issued in the turn, the generic completion is the
\* call issued right after the classification, and the response has no
\* weatherData.
C2_NoLocationNoGateway ==
    (Classified /\ ~Truthy(location)) =>
        /\ \A c \in GatewayCalls : ~Issued(c)
        /\ IssuedCalls = <<"llm_location", "llm_generic">>
        /\ ~HasPayload
C2_Witness ==
    /\ Done
    /\ Classified
    /\ location = Some(<<>>)
    /\ ~Val(response).error

\* C3: when a Gateway request fails (no geocoding result, a provider status
\* other than success, a throw), the turn ends with a normal response whose
\* text is the apology naming the requested location and which has no
\* weatherData; and geocode, weather and forecast are each issued at most
\* once per turn.
C3_GatewayFailureApology ==
    /\ \A c \in GatewayCalls : Count(c) <= 1
    /\ (Done /\ GatewayFailed) =>
            /\ IsApology(Val(response))
            /\ Truthy(location)
            /\ Val(response).content.place = Val(location)
C3_Witness == Done /\ Failed("forecast") /\ Ok("weather")

\* C4 (as claimed): when the Gateway succeeded and the synthesizer call
\* errors, the response is a templated sentence built from the record and
\* carries weatherData, as after a successful synthesis.
C4_SynthFailureTemplated ==
    (Done /\ IsSome(weatherData) /\ Failed("llm_synth")) =>
        /\ HasPayload
        /\ Val(response).content.tmpl = "fallback"

\* What the classifier received: a location completion that errored, had no
\* or empty content, or said 'null' in some letter case once trimmed; a
\* query-type completion that errored or said none of the three words.
IsNullWord(str) ==
    /\ Len(str) = 4
    /\ str[1] \in {"n", "N"} /\ str[2] \in {"u", "U"}
    /\ str[3] \in {"l", "L"} /\ str[4] \in {"l", "L"}
LocationUnusable(c) ==
    \/ ~c.ok
    \/ ~IsSome(Content(c))
    \/ Trim(Val(Content(c))) = <<>>
    \/ IsNullWord(Trim(Val(Content(c))))
QueryTypeWord(c) ==
    IF IsSome(Content(c)) THEN ToLowerCase(Trim(Val(Content(c)))) ELSE <<>>
QueryTypeUnusable(c) ==
    \/ ~c.ok
    \/ QueryTypeWord(c) \notin {CurrentStr, ForecastStr, MixedStr}

\* C5 (as claimed): whenever a classification completion (location or query
\* type) errors or is not a valid classification, no Gateway request is made
\* in the turn and the response has no weatherData.
C5_ClassifierFailsToNone ==
    (\/ Classified /\ LocationUnusable(Val(completions.location))
     \/ IsSome(completions.queryType)
            /\ QueryTypeUnusable(Val(completions.queryType))) =>
        /\ \A c \in GatewayCalls : ~Issued(c)
        /\ ~HasPayload

\* C5 (amended): a location completion that errors, has no or empty content
\* or says 'null' (any letter case, trimmed) yields no location: no Gateway
\* request is issued, the generic completion is requested and the response
\* has no weatherData. A query-type completion that errors or says anything
\* but 'forecast' or 'mixed' yields the type 'current', never none; it
\* arrives after the Gateway has returned its record.
C5_LocationFailsSoft ==
    /\ (Classified /\ LocationUnusable(Val(completions.location))) =>
            /\ ~Truthy(location)
            /\ \A c \in GatewayCalls : ~Issued(c)
            /\ Issued("llm_generic")
            /\ ~HasPayload
    /\ (IsSome(completions.queryType)
            /\ QueryTypeUnusable(Val(completions.queryType))) =>
            /\ queryAnalysis = Some("current")
            /\ IsSome(weatherData)
C5_Witness ==
    /\ Done
    /\ completions.location = Some(Msg(Some(<<"N","u","l","l","\n">>)))
    /\ ~Val(response).error

\* C6 (as claimed): every failure other than a missing credential ends the
\* turn with a response that has reply text (role assistant, content) and no
\* weatherData, never with an error response.
C6_EveryFailureIsAReply ==
    (Done /\ env.OPENWEATHER_API_KEY
          /\ \E i \in 1..Len(log) : log[i][1] = "fail") =>
        /\ ~Val(response).error
        /\ Val(response).role = "assistant"
        /\ ~HasPayload

\* C6 (amended): the handler always returns a response. A failure of the
\* Gateway or of the synthesizer call ends the turn with the apology (status
\* 200, role assistant, no weatherData); a failed location completion leads
\* to the generic path, without weatherData; a failed timezone or query-type
\* completion is absorbed by a default and does not end the turn; a body
\* that cannot be read (such as an empty message list) or a failed generic
\* completion ends the turn with the error response (status 500, no reply
\* text, no weatherData), and nothing else does.
C6_FailuresDegrade ==
    Done =>
        /\ IsSome(response)
        /\ (GatewayFailed \/ Failed("llm_synth") \/ Failed("config"))
                => IsApology(Val(response))
        /\ Failed("llm_location")
                => (Issued("llm_generic") /\ ~HasPayload)
        /\ (Failed("body") \/ Failed("llm_generic"))
                => IsError(Val(response))
        /\ Val(response).error
                => (IsError(Val(response))
                    /\ (Failed("body") \/ Issued("llm_generic")))
        /\ (Issued("llm_synth") /\ Ok("llm_synth"))
                => (HasPayload /\ ~Val(response).error)
C6_Witness ==
    /\ Done
    /\ Failed("llm_timezone")
    /\ Failed("llm_querytype")
    /\ Failed("llm_synth")

\* C7 (as claimed): for a turn whose intent is current, no forecast request
\* is sent to the provider.
C7_NoForecastForCurrent ==
    queryAnalysis = Some("current") => ~Issued("forecast")

\* C7 (amended): the Gateway requests current conditions exactly when the
\* geocoder found the place, and requests the forecast feed exactly when the
\* current-conditions request succeeded, whatever the intent: the query
\* type is asked for only after the forecast has succeeded, and a failed
\* forecast request ends the turn with the apology.
C7_ForecastAlwaysRequested ==
    /\ Issued("weather") <=> Ok("geocode")
    /\ Issued("forecast") <=> Ok("weather")
    /\ Issued("llm_querytype") => Ok("forecast")
    /\ pc \in {"awaitGeocode", "awaitWeather", "awaitForecast"}
            => queryAnalysis = None
    /\ (Done /\ Failed("forecast")) => IsApology(Val(response))
C7_Witness ==
    /\ Done
    /\ queryAnalysis = Some("current")
    /\ Ok("forecast")
    /\ HasPayload

\* The order in which a turn issues its external calls.
WeatherPath == <<"llm_location", "geocode", "weather", "forecast",
                 "llm_timezone", "llm_querytype", "llm_synth">>
GenericPath == <<"llm_location", "llm_generic">>

\* C8 (as claimed): the classification, query type included, is complete
\* before the first Gateway request (geocode) is issued.
C8_QueryTypeBeforeGateway ==
    Issued("geocode") => IsSome(completions.queryType)

\* C8 (amended): within a turn the calls are issued in the order location
\* classification, geocode, weather, forecast, timezone name, query-type
\* analysis, synthesis: the location is classified before the first Gateway
\* request, the query type is analysed only after the Gateway has returned
\* its record, and the synthesizer is called only after both; a turn without
\* location issues the generic completion after the classification.
C8_CallOrder ==
    /\ IsPrefix(IssuedCalls, WeatherPath) \/ IsPrefix(IssuedCalls, GenericPath)
    /\ Issued("geocode") => (Classified /\ Truthy(location))
    /\ ~IsSome(weatherData) => queryAnalysis = None
    /\ Issued("llm_querytype") => IsSome(weatherData)
    /\ Issued("llm_synth") => (IsSome(weatherData) /\ IsSome(queryAnalysis))
C8_Witness == pc = "awaitSynth" /\ IssuedCalls = WeatherPath

\* C9: within a turn at most one external call is outstanding at any moment:
\* a call is issued only when every call issued before it in the turn has
\* been answered.
C9_OneCallOutstanding ==
    /\ Cardinality(inflight) <= 1
    /\ inflight = Outstanding
    /\ \A i \in 1..Len(log) :
        log[i][1] = "issue" =>
            \A j \in 1..(i - 1) :
                log[j][1] = "issue" =>
                    \E k \in (j + 1)..(i - 1) :
                        /\ log[k][1] \in {"ok", "fail"}
                        /\ log[k][2] = log[j][2]
C9_Witness == inflight = {"forecast"} /\ Ok("weather") /\ Ok("geocode")

\* C10: the handler is a linear state machine: no external call and no step
\* is made more than once in a turn, a turn in progress has returned no
\* response and a finished turn exactly one, and every turn that has started
\* finishes.
StepsAtMostOnce ==
    /\ \A c \in ExternalCalls : Count(c) <= 1
    /\ Cardinality({i \in 1..Len(log) : log[i][2] = "body"}) <= 1
    /\ nResponses = (IF Done THEN 1 ELSE 0)
    /\ Done <=> IsSome(response)
InTurn == pc \notin {"load", "crashed", "idle", "done"}
C10_LinearAndTerminating ==
    /\ []StepsAtMostOnce
    /\ InTurn ~> Done
C10_Witness == Done /\ turn = MaxTurns - 1 /\ Ok("llm_synth") /\ nResponses = 1

\* C11 (as claimed): a response that carries weatherData has a non-empty
\* city and a forecast of at most 7 entries, in strictly ascending date
\* order, no two of them on the same UTC calendar date.
C11_PayloadWellFormed ==
    HasPayload =>
        LET p == Val(Val(response).weatherData)
        IN  /\ Len(p.city) > 0
            /\ Len(p.forecast) <= 7
            /\ \A i, j \in 1..Len(p.forecast) :
                i < j => /\ p.forecast[i].date < p.forecast[j].date
                         /\ IsoDate(p.forecast[i].date)
                                # IsoDate(p.forecast[j].date)

\* C13 (as claimed): every turn for which a location was classified issues
\* its own geocode request and its own weather request, and the number of
\* geocode requests equals the number of turns with a classified location.
C13_EveryLocatedTurnFetches ==
    /\ geocodeRequests = Len(located)
    /\ (Done /\ Truthy(location)) => (Issued("geocode") /\ Issued("weather"))

\* C13 (amended): the Gateway keeps nothing between invocations. With the
\* weather key configured, every turn with a classified location sends its
\* own geocoding request, also for a location an earlier turn asked for, and
\* the number of geocoding requests equals the number of such turns; the
\* weather request is sent exactly when the geocoder found the place.
\* Without the key a located turn sends no request at all.
C13_NoCacheBetweenTurns ==
    /\ geocodeRequests = (IF env.OPENWEATHER_API_KEY THEN Len(located) ELSE 0)
    /\ (Classified /\ Truthy(location)) =>
            /\ Len(located) > 0
            /\ located[Len(located)] = Val(location)
            /\ Count("geocode") = (IF env.OPENWEATHER_API_KEY THEN 1 ELSE 0)
    /\ (Classified /\ ~Truthy(location)) => Count("geocode") = 0
    /\ Count("weather") = (IF Ok("geocode") THEN 1 ELSE 0)
C13_Witness ==
    /\ turn = 1
    /\ Len(located) = 2
    /\ located[1] = located[2]
    /\ geocodeRequests = 2
    /\ Ok("geocode")
    /\ Issued("weather")

\* C14 (as claimed): a missing credential (the LLM key, the weather key) is
\* detected once, when the process starts, and is fatal there; it is never
\* detected per call, so no turn ends in a response caused by a missing
\* credential.
C14_CredentialsCheckedAtStart ==
    /\ (~env.GROQ_API_KEY \/ ~env.OPENWEATHER_API_KEY)
            => pc \in {"load", "crashed"}
    /\ ~Failed("config")

\* C15 (as claimed): on every failure the reply is the apology that names
\* the requested location.
C15_EveryFailureApologises ==
    (Done /\ IsSome(caught)) =>
        /\ IsApology(Val(response))
        /\ Truthy(location)
        /\ Val(response).content.place = Val(location)

\* C15 (amended): no response carries the text of an error. When the
\* Gateway fails (missing key, geocoder, weather or forecast request) or the
\* contextual completion throws, the response is the apology built from the
\* requested location alone, the same whatever message or status the
\* provider returned; when the body cannot be read or the generic
\* completion fails, it is the fixed error response. The message goes to
\* console.error only.
C15_NoRawErrorText ==
    (Done /\ IsSome(caught)) =>
        /\ Val(response).content.text = <<>>
        /\ (GatewayFailed \/ Failed("config") \/ Failed("llm_synth")) =>
                /\ Truthy(location)
                /\ Val(response) =
                    [status |-> 200, error |-> FALSE, role |-> "assistant",
                     content |-> [tmpl |-> "apology", text |-> <<>>,
                                  place |-> Val(location), emoji |-> ""],
                     weatherData |-> None]
        /\ ~(GatewayFailed \/ Failed("config") \/ Failed("llm_synth")) =>
                /\ Failed("body") \/ Issued("llm_generic")
                /\ Val(response) =
                    [status |-> 500, error |-> TRUE, role |-> "",
                     content |-> [tmpl |-> "none", text |-> <<>>,
                                  place |-> <<>>, emoji |-> ""],
                     weatherData |-> None]
C15_Witness ==
    /\ Done
    /\ Failed("weather")
    /\ caught = Some(InvalidApiKey)
    /\ IsApology(Val(response))

\* The latest message of the request names a weather keyword, whatever the
\* letter case.
HasKeyword(text) ==
    \E k \in weatherKeywords : Includes(ToLowerCase(text), ToLowerCase(k))
BodyRead == IsSome(body) /\ ~bodyThrows(Val(body))
LatestHasKeyword == HasKeyword(lastMessageOf(Val(body)))

\* C16 (as claimed): when the latest message contains none of the weather
\* keywords, no classifier completion and no Gateway request is made in the
\* turn, and the response is the generic one, without weatherData.
C16_KeywordPrefilter ==
    (BodyRead /\ ~LatestHasKeyword) =>
        /\ ~Issued("llm_location")
        /\ \A c \in GatewayCalls : ~Issued(c)
        /\ ~HasPayload

\* C16 (amended): the route has no keyword pre-filter: every request whose
\* body can be read asks the classifier for a location first, whatever its
\* text, and the classifier's answer alone decides between the Gateway and
\* the generic completion. Only the earlier variant of the route has the
\* pre-filter: there a message without keyword (letter case ignored) makes
\* no classifier and no Gateway call and is answered by the generic
\* completion, and a message with a keyword is classified.
C16_PrefilterOnlyInEarlierVariant ==
    BodyRead =>
        /\ variant = "route" =>
                /\ Len(IssuedCalls) > 0
                /\ IssuedCalls[1] = "llm_location"
        /\ (variant = "earlier" /\ ~LatestHasKeyword) =>
                /\ IssuedCalls = <<"llm_generic">>
                /\ completions = NoCompletions
                /\ ~HasPayload
        /\ (variant = "earlier" /\ LatestHasKeyword) =>
                /\ Len(IssuedCalls) > 0
                /\ IssuedCalls[1] = "llm_location"
C16_Witness ==
    /\ Done
    /\ variant = "route"
    /\ BodyRead
    /\ lastMessageOf(Val(body)) = ThanksText
    /\ HasPayload

\* Two results of getWeatherData on the same answers.
SameButZone(r, q) ==
    /\ [r EXCEPT !.sunrise = 0, !.sunset = 0]
            = [q EXCEPT !.sunrise = 0, !.sunset = 0]
    /\ [r.sunrise EXCEPT !.zone = <<>>] = [q.sunrise EXCEPT !.zone = <<>>]
    /\ [r.sunset EXCEPT !.zone = <<>>] = [q.sunset EXCEPT !.zone = <<>>]

C19_PayloadIsTheRecord ==
    HasPayload =>
        /\ IsSome(weatherData)
        /\ LET payload == Val(Val(response).weatherData)
               record == Val(weatherData)
           IN  /\ DOMAIN payload = DOMAIN record
               /\ \A field \in DOMAIN record : payload[field] = record[field]
C19_Witness ==
    /\ Done
    /\ HasPayload
    /\ Val(weatherData).temperature = 18
    /\ Val(Val(response).weatherData).temperature = 18
    /\ Len(Val(Val(response).weatherData).forecast) = 7

\* C20 (as claimed): after any sequence of toggleTheme calls, two calls
\* before a render included, the stored preference is the current isDark and
\* the document root has the class 'dark' exactly when isDark; after a
\* reload the theme is the stored one.
C20_ThemeSaved ==
    themePc = "mounted" =>
        /\ toggles > 0 => stored = Some(BoolToString(isDark))
        /\ isDark <=> (stored = Some("true"))
        /\ darkClass <=> isDark

\* C12: two invocations of POST in flight at once are independent. The
\* response of each is what its own request body and the answers to its own
\* calls determine; a step of one invocation leaves everything that belongs
\* to the other as it was; and the only state of the module, process.env
\* and the client made from it, is never written.
InvocationResult(inv) ==
    inv.pc = "done" =>
        inv.response = Some(handleTurn(env.OPENWEATHER_API_KEY, Val(inv.body),
                                       inv.completions, inv.received))
C12_InvocationsIndependent ==
    /\ [](IsSome(parked) =>
            (InvocationResult(Current) /\ InvocationResult(Val(parked))))
    /\ [][\/ parked' = parked
          \/ parked' = Some(Current) /\ Current' = Val(parked)]_vars
    /\ [][env' = env]_vars
C12_Witness ==
    /\ IsSome(parked)
    /\ Done
    /\ HasPayload
    /\ location = Some(ParisStr)
    /\ Val(parked).pc = "awaitWeather"
    /\ Val(parked).location = Some(OzStr)
    /\ located = <<OzStr, ParisStr>>

\* The samples of `list` that are the first of their UTC date, by position.
FirstOfDate(list) ==
    {i \in 1..Len(list) :
        \A j \in 1..(i - 1) :
            IsoDate(list[j].dt * 1000) # IsoDate(list[i].dt * 1000)}
\* The k-th of them.
NthFirst(list, k) ==
    CHOOSE i \in FirstOfDate(list) :
        Cardinality({j \in FirstOfDate(list) : j < i}) = k - 1
Smaller(a, b) == IF a < b THEN a ELSE b
\* `out` is `list` with the first sample of each of its first n dates, in
\* the order in which the dates first occur.
FirstPerDate(out, list, n) ==
    /\ Len(out) = Smaller(n, Cardinality(FirstOfDate(list)))
    /\ \A k \in 1..Len(out) :
        LET item == list[NthFirst(list, k)]
        IN  out[k] = [date |-> item.dt * 1000,
                      temp |-> MathRound(item.temp),
                      description |-> item.description,
                      icon |-> item.icon]

\* C21 (as claimed): in both implementations the normalised forecast is the
\* first sample of each of the first 7 distinct UTC dates of the feed, in
\* the order in which the dates first occur.
C21_FirstSampleOfFirstSevenDates ==
    /\ IsSome(routeForecast) => FirstPerDate(Val(routeForecast), feed, 7)
    /\ IsSome(clientForecast) => FirstPerDate(Val(clientForecast), feed, 7)

\* C21 (amended): getWeatherData keeps the first sample of each of the
\* first 7 distinct UTC dates of the feed, in order of first occurrence,
\* also for a feed that is not chronological; the client's
\* getWeatherForecastDirect does the same for the first `days` dates, where
\* days is the caller's argument and 7 when it is absent or 0.
C21_FirstSampleOfFirstDates ==
    /\ IsSome(routeForecast) => FirstPerDate(Val(routeForecast), feed, 7)
    /\ IsSome(clientForecast) =>
           FirstPerDate(Val(clientForecast), feed, daysOrDefault(days))
C21_Witness ==
    /\ IsSome(routeForecast)
    /\ IsSome(clientForecast)
    /\ Len(feed) = MaxSamples
    /\ Cardinality(FirstOfDate(feed)) > 7
    /\ Len(Val(routeForecast)) = 7
    /\ days = Some(3)
    /\ Len(Val(clientForecast)) = 3

\* The clock time at a place `offset` seconds from UTC, `seconds` after
\* the epoch.
PlaceClock(seconds, offset) ==
    LET s == (seconds + offset) % 86400
        h == s \div 3600
    IN  [hour |-> IF h % 12 = 0 THEN 12 ELSE h % 12,
         minute |-> (s % 3600) \div 60,
         period |-> IF h < 12 THEN "AM" ELSE "PM"]
ClockOf(t) == [hour |-> t.hour, minute |-> t.minute, period |-> t.period]
ShowsPlaceTime(times) ==
    IsSome(times) =>
        /\ ClockOf(Val(times).sunrise)
               = PlaceClock(Val(sun).sunrise, Val(sun).timezone)
        /\ ClockOf(Val(times).sunset)
               = PlaceClock(Val(sun).sunset, Val(sun).timezone)

\* C22 (as claimed): in each of the three implementations the sunrise and
\* sunset shown are the clock times at the queried place, provider
\* timestamp plus provider offset, whatever the time zone of the machine.
C22_SunTimesLocalToPlace ==
    /\ ShowsPlaceTime(chatTimes)
    /\ ShowsPlaceTime(weatherTimes)
    /\ ShowsPlaceTime(clientTimes)

\* A call of addMessage has ended in this step.
Called == lastCall' # lastCall
\* The given weatherData has every required field.
HasEveryField(wd) ==
    /\ IsSome(wd)
    /\ IsSome(Val(wd).coordinates)
    /\ Val(Val(wd).coordinates).lat.t = "number"
    /\ Val(Val(wd).coordinates).lon.t = "number"
    /\ Val(wd).city.t = "string"
    /\ Val(wd).temperature.t = "number"
    /\ Val(wd).feels_like.t = "number"
    /\ Val(wd).description.t = "string"
    /\ Val(wd).humidity.t = "number"
    /\ Val(wd).wind_speed.t = "number"
    /\ Val(wd).sunrise.t = "string"
    /\ Val(wd).sunset.t = "string"
NoEmptyString(wd) ==
    /\ Val(wd).city.s # <<>>
    /\ Val(wd).description.s # <<>>
    /\ Val(wd).sunrise.s # <<>>
    /\ Val(wd).sunset.s # <<>>
Lacking(m) == m.role = "" \/ m.content = <<>> \/ ~IsSome(m.timestamp)

\* C25 (as claimed): a call of addMessage with a message lacking role,
\* content or timestamp throws and leaves the stored chats unchanged; any
\* other call appends exactly one message to the chat, with weatherData if
\* and only if the given weatherData has every required field.
C25_ValidatesThenAppendsOne ==
    [][Called =>
        LET call == Val(lastCall')
            m == call.message
            c == call.chatId
        IN  IF Lacking(m)
            THEN call.end = "invalid" /\ chats' = chats
            ELSE /\ IsSome(chats[c])
                 /\ IsSome(chats'[c])
                 /\ Len(Val(chats'[c])) = Len(Val(chats[c])) + 1
                 /\ SubSeq(Val(chats'[c]), 1, Len(Val(chats[c])))
                        = Val(chats[c])
                 /\ LET kept == Val(chats'[c])[Len(Val(chats'[c]))]
                    IN  /\ kept.role = m.role
                        /\ kept.content = m.content
                        /\ kept.timestamp = m.timestamp
                        /\ IsSome(kept.weatherData)
                               <=> HasEveryField(m.weatherData)]_vars

\* C25 (amended): addMessage throws and leaves the stored chats unchanged
\* when role, content or timestamp is absent or falsy, a timestamp of 0
\* included, and when the write is rejected (no such chat, or the write
\* does not get through). Otherwise the chat gets the cleaned message by
\* arrayUnion: exactly one message is appended unless an equal message is
\* stored already, and then nothing changes. The stored message carries
\* weatherData if and only if the given one has every required field with
\* non-empty strings, numbers of 0 included, and the stored weatherData
\* never has a forecast. No other chat changes.
C25_ValidatesThenUnions ==
    [][Called =>
        LET call == Val(lastCall')
            m == call.message
            c == call.chatId
            wd == IF HasEveryField(m.weatherData)
                     /\ NoEmptyString(m.weatherData)
                  THEN Some([Val(m.weatherData) EXCEPT !.forecast = None])
                  ELSE None
            cleaned == Message(m.role, m.content, m.timestamp, wd)
        IN  /\ \A d \in ChatIds \ {c} : chats'[d] = chats[d]
            /\ (Lacking(m) \/ m.timestamp = Some(0)) <=> call.end = "invalid"
            /\ call.end # "resolved" => chats' = chats
            /\ call.end = "rejected" /\ IsSome(chats[c]) =>
                   ~(Lacking(m) \/ m.timestamp = Some(0))
            /\ call.end = "resolved" =>
                   /\ IsSome(chats[c])
                   /\ LET old == Val(chats[c])
                      IN  chats'[c] =
                            IF \E i \in 1..Len(old) : old[i] = cleaned
                            THEN Some(old)
                            ELSE Some(Append(old, cleaned))]_vars
C25_Witness ==
    /\ IsSome(lastCall)
    /\ Val(lastCall).end = "resolved"
    /\ Val(lastCall).message.weatherData = Some(ZeroPayload)
    /\ Len(Val(chats[1])) = 4
    /\ Val(chats[1])[4].weatherData
           = Some([ZeroPayload EXCEPT !.forecast = None])
    /\ Val(chats[1])[3].weatherData = None

\* ------------------------------------------------------------------ C23
\* The messages of the turn `h` in the stored document of its chat, in
\* the order of the document.
TurnMessages(h) ==
    LET t == submits[h]
        OfTurn(m) == Val(m.timestamp) \div 10 = h
    IN  IF IsSome(t.chatId) /\ IsSome(chats[Val(t.chatId)])
        THEN SelectSeq(Val(chats[Val(t.chatId)]), OfTurn)
        ELSE <<>>
Settled(t) == t.pc \in {"done", "failed"}
RequestSucceeded(t) ==
    IsSome(t.reply) /\ ~Val(t.reply).thrown /\ Val(t.reply).ok

\* C23 (as stated): every turn submitted from the chat UI has appended,
\* once its handler has run to its end, exactly one user message followed
\* by exactly one assistant message to its chat: the reply of the endpoint
\* when the request succeeded, the fixed apology when it failed or was not
\* OK.
C23_TurnAppendsUserThenAssistant ==
    \A h \in 1..Len(submits) :
        LET t == submits[h]
            mine == TurnMessages(h)
        IN  Settled(t) =>
                /\ Len(mine) = 2
                /\ mine[1].role = "user"
                /\ mine[2].role = "assistant"
                /\ mine[2].content = IF RequestSucceeded(t)
                                     THEN Val(t.reply).content
                                     ELSE RetryText

\* C23 (amended): what a turn has appended follows from which of its
\* writes the store accepted. A turn whose first write (createChat or
\* addMessage of the user message) is rejected appends nothing and sends no
\* request. Otherwise it appends one user message, sends one request, and
\* then appends one assistant message after it: the content of the reply
\* when the request succeeded and the reply was stored ('Sorry, I
\* encountered an error.' when the reply has no content), and the fixed
\* apology when the request failed, was not OK, or the reply was not
\* stored; when the apology is rejected too, only the user message stays.
C23_TurnAppendsWhatIsStored ==
    \A h \in 1..Len(submits) :
        LET t == submits[h]
            mine == TurnMessages(h)
        IN  /\ t.pc \in {"awaitCreate", "awaitAddUser"} \/ "user" \in t.rejected
                => mine = <<>> /\ t.sent = None /\ t.reply = None
            /\ t.pc \in {"awaitFetch", "awaitAddAssistant", "awaitAddError"}
                \/ (t.pc = "failed" /\ "user" \notin t.rejected)
                => /\ Len(mine) = 1
                   /\ mine[1].role = "user"
                   /\ IsSome(t.sent)
            /\ t.pc = "failed" /\ "user" \notin t.rejected
                => "error" \in t.rejected
            /\ t.pc = "done"
                => /\ Len(mine) = 2
                   /\ mine[1].role = "user"
                   /\ mine[1].content \in {t.raw, Trim(t.raw)}
                   /\ mine[2].role = "assistant"
                   /\ IsSome(t.sent)
                   /\ mine[2].content =
                        IF RequestSucceeded(t) /\ "assistant" \notin t.rejected
                        THEN IF Val(t.reply).content # <<>>
                             THEN Val(t.reply).content
                             ELSE SorryText
                        ELSE RetryText

\* A turn has stored the reply of the endpoint after its user message, and
\* a turn has stored the apology after a request that was not OK.
C23_Witness ==
    \E h \in 1..Len(submits) :
        /\ submits[h].pc = "done"
        /\ RequestSucceeded(submits[h])
        /\ Len(TurnMessages(h)) = 2
        /\ TurnMessages(h)[2].content = OkText

\* ------------------------------------------------------------------ C24
\* The reply of the turn carries a forecast and its query is about the
\* forecast.
ForecastTurn(t) ==
    /\ RequestSucceeded(t)
    /\ IsSome(Val(t.reply).weatherData)
    /\ IsSome(Val(Val(t.reply).weatherData).forecast)
    /\ isForecastQuery(t.userMessage.content)

\* C24: when the reply carries a forecast and the query was about the
\* forecast, the assistant message the UI holds after the listener has
\* delivered it still has the forecast the endpoint returned.
C24_ForecastSurvivesStorage ==
    \A h \in 1..Len(submits), i \in 1..Len(messages) :
        /\ ForecastTurn(submits[h])
        /\ messages[i].role = "assistant"
        /\ messages[i].timestamp = Some(Stamp(h, 3))
        => /\ IsSome(messages[i].weatherData)
           /\ Val(messages[i].weatherData).forecast =
                Val(Val(submits[h].reply).weatherData).forecast

\* ------------------------------------------------------------------ C28
\* C28: when a confirmed deletion returns, the chat is gone from the
\* store; if it was the open chat the session is a new chat (no current
\* chat id, no messages, the map closed), and if it was another chat the
\* current chat id and the messages are as before; a failed deletion
\* leaves the selection as it was.
C28_DeletionResetsOnlyOpenChat ==
    [][IsSome(deleting) /\ deleting' = None =>
          LET c == Val(deleting).chatId
          IN  IF chats'[c] = None /\ currentChatId = Some(c)
              THEN /\ currentChatId' = None
                   /\ messages' = <<>>
                   /\ ~isMapOpen'
              ELSE /\ currentChatId' = currentChatId
                   /\ messages' = messages]_vars

\* ------------------------------------------------------------------ C29
\* C29: the history a turn sends to the endpoint is the messages its chat
\* held when the turn began, followed by the new user message.
C29_HistoryIsOfTheTurnsChat ==
    \A h \in 1..Len(submits) :
        LET t == submits[h]
        IN  IsSome(t.sent) =>
                Val(t.sent) = RoleContent(Append(Val(t.before), t.userMessage))

\* ------------------------------------------------------------------ C30
\* C30: at most one turn is in flight in a session, from its start until
\* its handler has run to its end, and the turns of a session that began
\* with no chat open create at most one chat.
C30_OneTurnInFlight ==
    /\ Cardinality({h \in 1..Len(submits) : ~Settled(submits[h])}) <= 1
    /\ Cardinality({h \in 1..Len(submits) :
                      /\ submits[h].pc \notin {"awaitCreate", "failed"}
                      /\ submits[h].history = <<>>
                      /\ submits[h].chatId = Some(h + 1)}) <= 1

\* ------------------------------------------------------------------ C26
\* The arguments the tool `name` does not accept.
InvalidArguments(name, args) ==
    LET Text(v) == v.t = "string" /\ v.s # <<>>
        Within(v, most) == v = Undefined \/ (v.t = "number" /\ v.n \in 1..most)
    IN  CASE name = "get_current_weather" -> ~Text(args.location)
          [] name = "get_weather_forecast" ->
                 ~Text(args.location) \/ ~Within(args.days, 7)
          [] name = "search_locations" ->
                 ~Text(args.query) \/ ~Within(args.limit, 10)
          [] OTHER -> FALSE

\* C26: the caller of a tool gets MethodNotFound for an unknown tool name,
\* InvalidParams (and no provider request is made) for a missing or
\* non-string location/query or a days/limit out of range, and
\* InternalError only for a failure while fetching.
C26_DistinctErrorCodes ==
    IsSome(toolResult) =>
        LET q == Val(toolRequest)
            r == Val(toolResult)
        IN  /\ q.name \notin ToolNames => r.code = "MethodNotFound"
            /\ q.name \in ToolNames /\ InvalidArguments(q.name, q.args)
                => r.code = "InvalidParams" /\ r.requests = 0
            /\ r.code = "InternalError"
                => /\ q.name \in ToolNames
                   /\ ~InvalidArguments(q.name, q.args)
                   /\ (~q.key \/ q.provider # "ok")

\* ------------------------------------------------------------------ C27
\* C27: a tool call reaches the provider only on a connected client and
\* fails with 'MCP client not connected' otherwise; connect leaves the
\* client connected whatever it was; and the tool call of a GET with a city
\* is made on a connected client, so that a city the provider resolves is
\* answered with the weather record.
C27_ConnectBeforeUse ==
    IsSome(clientResult) =>
        LET r == Val(clientResult)
        IN  /\ r.requests > 0 => r.connected
            /\ r.op = "callTool" /\ ~r.connected
                => r.thrown = Some(NotConnectedMessage)
            /\ r.op = "connect" => isConnected
            /\ r.op = "GET" /\ IsSome(r.city)
                => /\ r.connected
                   /\ (r.key /\ r.provider = "ok" => r.status = 200)

====
